---- MODULE Spec2Model ----
(***************************************************************************)
(* A model of kopye: the question-dependency resolver (tampopo::sort_graph *)
(* and prompt.rs) and the transactional materializer (template.rs and      *)
(* transactions.rs).                                                       *)
(*                                                                         *)
(* A Rust string is a sequence of tokens; the token ":" is the separator   *)
(* that str::split_once(':') looks for, every other token is a run of      *)
(* characters without ':'.                                                 *)
(***************************************************************************)
EXTENDS Integers, Sequences, FiniteSets, TLC

VARIABLES
    file,                            \* QuestionsFile: the IndexMap as a sequence of [key, type, choices, dep]
    graph,                           \* tampopo::Graph {nodes, edges}
    dependencies_to_dependents_map,  \* sort_graph local
    in_degree_map,                   \* sort_graph local
    queue,                           \* sort_graph local (VecDeque, front first)
    sorted,                          \* sort_graph local
    sort_result,                     \* Result<Vec<Node>, SortError<Node>>
    stablized_order,                 \* get_answers local
    answers,                         \* get_answers local (IndexMap<String, Answer>)
    widx,                            \* position of the for loop of get_answers
    prompted,                        \* the questions handed to the prompt collaborator, in order
    turns,                           \* per iteration of the loop of get_answers: the question,
                                     \* the answers so far and the local should_prompt
    pc,                              \* position in get_answers
    cd_dep,                          \* check_dependency: the argument dep
    cd_answers,                      \* check_dependency: the argument answers
    cd_result,                       \* check_dependency: the returned bool
    disk,                            \* the filesystem: location |-> [kind, content]
    disk0,                           \* the filesystem as the run found it
    trx,                             \* the live Transaction value
    recorded,                        \* every operation handed to add_operation, in order
    undone,                          \* every operation Drop has executed, in order
    undo_failures,                   \* undo steps that failed on an I/O error
    result,                          \* what the run returned
    destination,                     \* try_render: the argument destination as a PathBuf
    blueprint,                       \* the entries WalkDir yields for the blueprint directory
    vfs,                             \* try_render local: VirtualFS.entries
    aidx,                            \* position of the running for loop of apply_vfs
    confirmed                        \* what apply_changes replied

gaVars == <<file, graph, dependencies_to_dependents_map, in_degree_map, queue, sorted,
            sort_result, stablized_order, answers, widx, prompted, turns, pc>>

gaVars_but_pc == <<file, graph, dependencies_to_dependents_map, in_degree_map, queue, sorted,
                   sort_result, stablized_order, answers, widx, prompted, turns>>

cdVars == <<cd_dep, cd_answers, cd_result>>

trxVars == <<disk, disk0, trx, recorded, undone, undo_failures, result>>

renderVars == <<destination, blueprint, vfs, aidx, confirmed>>

vars == <<gaVars, cdVars, trxVars, renderVars>>

\* what the steps of get_answers leave alone
notGa == <<cdVars, trxVars, renderVars>>

(***************************************************************************)
(* Bounds                                                                  *)
(***************************************************************************)
MaxEdges == 3

(***************************************************************************)
(* Strings and small helpers                                               *)
(***************************************************************************)
Colon == ":"

Str(t) == <<t>>

Range(s) == {s[i] : i \in 1..Len(s)}

Contains(s, x) == \E i \in 1..Len(s) : s[i] = x

IndexOf(s, x) == CHOOSE i \in 1..Len(s) : s[i] = x /\ \A j \in 1..(i - 1) : s[j] # x

SeqsUpTo(S, n) == UNION {[1..k -> S] : k \in 0..n}

Perms(S) == {p \in [1..Cardinality(S) -> S] : \A i, j \in 1..Cardinality(S) : i # j => p[i] # p[j]}

MapRemove(f, k) == [x \in (DOMAIN f) \ {k} |-> f[x]]

MapPut(f, k, v) == [x \in (DOMAIN f) \cup {k} |-> IF x = k THEN v ELSE f[x]]

EmptyMap == [x \in {} |-> 0]

RECURSIVE SelectSeq2(_, _)
\* iterator .filter(...) over a sequence, with the predicate given as a set
SelectSeq2(s, keep) ==
    IF s = <<>> THEN <<>>
    ELSE IF Head(s) \in keep THEN <<Head(s)>> \o SelectSeq2(Tail(s), keep)
    ELSE SelectSeq2(Tail(s), keep)

RECURSIVE RejectSeq(_, _)
RejectSeq(s, drop) ==
    IF s = <<>> THEN <<>>
    ELSE IF Head(s) \in drop THEN RejectSeq(Tail(s), drop)
    ELSE <<Head(s)>> \o RejectSeq(Tail(s), drop)

\* a split that takes a text without ':' as the text before an empty rest
split_once_WholeAsHead(s) ==
    IF Contains(s, Colon)
    THEN LET i == IndexOf(s, Colon)
         IN [found |-> TRUE, head |-> SubSeq(s, 1, i - 1), tail |-> SubSeq(s, i + 1, Len(s))]
    ELSE [found |-> TRUE, head |-> s, tail |-> <<>>]

\* str::split_once(':'): the text before and after the first ':'
split_once(s) ==
    IF Contains(s, Colon)
    THEN LET i == IndexOf(s, Colon)
         IN [found |-> TRUE, head |-> SubSeq(s, 1, i - 1), tail |-> SubSeq(s, i + 1, Len(s))]
    ELSE [found |-> FALSE, head |-> <<>>, tail |-> <<>>]

(***************************************************************************)
(* prompt.rs: Dependency, Question, QuestionsFile                          *)
(***************************************************************************)
NoDependency == [tag |-> "None", list |-> <<>>]
Condition(s) == [tag |-> "Condition", list |-> <<s>>]
And(all) == [tag |-> "And", list |-> all]
Or(any) == [tag |-> "Or", list |-> any]

Keys(f) == [i \in 1..Len(f) |-> f[i].key]

\* the Vec<&str> of dependency strings of one question
DependencyStrings(question_config) == question_config.dep.list

RECURSIVE EdgesOfQuestion(_, _)
\* the filter_map of adjacency_list_from_file: one edge per dependency string with a ':'
EdgesOfQuestion(dependencies, question_key) ==
    IF dependencies = <<>> THEN <<>>
    ELSE LET sp == split_once(Head(dependencies))
             rest == EdgesOfQuestion(Tail(dependencies), question_key)
         IN IF sp.found THEN <<(<<sp.head, question_key>>)>> \o rest ELSE rest

RECURSIVE adjacency_list_from_file(_)
adjacency_list_from_file(f) ==
    IF f = <<>> THEN <<>>
    ELSE EdgesOfQuestion(DependencyStrings(Head(f)), Head(f).key)
            \o adjacency_list_from_file(Tail(f))

(***************************************************************************)
(* tampopo::sort_graph                                                     *)
(***************************************************************************)
RECURSIVE InitInDegree(_, _)
\* lines 48-50: in_degree_map.entry(node).or_insert(0)
InitInDegree(nodes, m) ==
    IF nodes = <<>> THEN m
    ELSE InitInDegree(Tail(nodes),
                      IF Head(nodes) \in DOMAIN m THEN m ELSE MapPut(m, Head(nodes), 0))

RECURSIVE BuildMaps_DependentsOnce(_, _, _)
\* a pass over the edges that lists a dependent once per dependency but counts
\* every edge
BuildMaps_DependentsOnce(edges, dm, idm) ==
    IF edges = <<>> THEN [dm |-> dm, idm |-> idm]
    ELSE LET src == Head(edges)[1]
             dest == Head(edges)[2]
             old == IF src \in DOMAIN dm THEN dm[src] ELSE <<>>
             dm2 == MapPut(dm, src, IF Contains(old, dest) THEN old ELSE old \o <<dest>>)
             idm2 == MapPut(idm, dest, (IF dest \in DOMAIN idm THEN idm[dest] ELSE 0) + 1)
         IN BuildMaps_DependentsOnce(Tail(edges), dm2, idm2)

RECURSIVE BuildMaps(_, _, _)
\* lines 52-59: one pass over the edges
BuildMaps(edges, dm, idm) ==
    IF edges = <<>> THEN [dm |-> dm, idm |-> idm]
    ELSE LET src == Head(edges)[1]
             dest == Head(edges)[2]
             dm2 == MapPut(dm, src, (IF src \in DOMAIN dm THEN dm[src] ELSE <<>>) \o <<dest>>)
             idm2 == MapPut(idm, dest, (IF dest \in DOMAIN idm THEN idm[dest] ELSE 0) + 1)
         IN BuildMaps(Tail(edges), dm2, idm2)

ZeroKeys(idm) == {k \in DOMAIN idm : idm[k] = 0}

RECURSIVE DecrementNeighbors(_, _, _)
\* lines 79-93: the for loop over the dependents of the popped node
DecrementNeighbors(neighbors, idm, q) ==
    IF neighbors = <<>> THEN [idm |-> idm, q |-> q]
    ELSE LET neighbor == Head(neighbors)
         IN IF neighbor \in DOMAIN idm
            THEN LET count == idm[neighbor] - 1
                 IN IF count = 0
                    THEN DecrementNeighbors(Tail(neighbors), MapRemove(idm, neighbor),
                                            <<neighbor>> \o q)
                    ELSE DecrementNeighbors(Tail(neighbors),
                                            [idm EXCEPT ![neighbor] = count], q)
            ELSE DecrementNeighbors(Tail(neighbors), idm, q)

\* lines 45-68: build both maps, then seed the queue by iterating in_degree_map.
\* The iteration order of a std HashMap is unspecified: any order of the keys.
SortBuild ==
    /\ pc = "sort_build"
    /\ LET m == BuildMaps(graph.edges, EmptyMap, InitInDegree(graph.nodes, EmptyMap))
       IN /\ dependencies_to_dependents_map' = m.dm
          /\ in_degree_map' = m.idm
          /\ \E order \in Perms(ZeroKeys(m.idm)) : queue' = order
    /\ sorted' = <<>>
    /\ pc' = "sort_loop"
    /\ UNCHANGED <<file, graph, sort_result, stablized_order, answers, widx, prompted, turns>>
    /\ UNCHANGED notGa

\* an iteration that reads the back of the queue and leaves it there
PopStep_BackWithoutPop(dm, idm, q, srt) ==
    LET node_without_incoming_edges == q[Len(q)]
    IN [idm |-> idm, q |-> q,
        sorted |-> IF Contains(srt, node_without_incoming_edges) THEN srt
                   ELSE Append(srt, node_without_incoming_edges)]

\* lines 73-94: one iteration of the while loop (pop_back, push_front)
PopStep(dm, idm, q, srt) ==
    LET node_without_incoming_edges == q[Len(q)]
        rest == SubSeq(q, 1, Len(q) - 1)
        neighbors == IF node_without_incoming_edges \in DOMAIN dm
                     THEN dm[node_without_incoming_edges]
                     ELSE <<>>
        r == DecrementNeighbors(neighbors, MapRemove(idm, node_without_incoming_edges), rest)
    IN [idm |-> r.idm, q |-> r.q, sorted |-> Append(srt, node_without_incoming_edges)]

SortPop ==
    /\ pc = "sort_loop"
    /\ queue # <<>>
    /\ LET r == PopStep(dependencies_to_dependents_map, in_degree_map, queue, sorted)
       IN /\ sorted' = r.sorted
          /\ in_degree_map' = r.idm
          /\ queue' = r.q
    /\ UNCHANGED <<file, graph, dependencies_to_dependents_map, sort_result, stablized_order,
                   answers, widx, prompted, turns, pc>>
    /\ UNCHANGED notGa

Ok(v) == [ok |-> TRUE, value |-> v]
CycleDetected(edges) == [ok |-> FALSE, value |-> edges]
\* sort_graph has not returned yet
NoResult == [ok |-> FALSE, value |-> <<>>]

\* a sorter that reports only the edges into the nodes it could not sort
SortReturnValue_OffendingEdges(idm, srt, edges) ==
    IF DOMAIN idm = {} THEN Ok(srt)
    ELSE CycleDetected(SelectSeq(edges, LAMBDA e : e[2] \in DOMAIN idm))

\* a sorter that returns what it sorted whatever is left in in_degree_map
SortReturnValue_AlwaysOk(idm, srt, edges) == Ok(srt)

\* lines 96-100
SortReturnValue(idm, srt, edges) ==
    IF DOMAIN idm = {} THEN Ok(srt) ELSE CycleDetected(edges)

SortReturn ==
    /\ pc = "sort_loop"
    /\ queue = <<>>
    /\ sort_result' = SortReturnValue(in_degree_map, sorted, graph.edges)
    /\ pc' = "sorted"
    /\ UNCHANGED <<file, graph, dependencies_to_dependents_map, in_degree_map, queue, sorted,
                   stablized_order, answers, widx, prompted, turns>>
    /\ UNCHANGED notGa

(***************************************************************************)
(* prompt.rs: stablize_topological_order                                   *)
(***************************************************************************)
RECURSIVE CountIncoming(_, _)
\* lines 243-251: in-degree of the nodes of graph.nodes only
CountIncoming(edges, m) ==
    IF edges = <<>> THEN m
    ELSE LET dest == Head(edges)[2]
         IN CountIncoming(Tail(edges),
                          IF dest \in DOMAIN m THEN [m EXCEPT ![dest] = @ + 1] ELSE m)

in_degrees(g) == CountIncoming(g.edges, [n \in Range(g.nodes) |-> 0])

independent(g) == {n \in DOMAIN in_degrees(g) : in_degrees(g)[n] = 0}

\* a stabilizer that hands the sorter's order through
stablize_topological_order_Unstable(g, srt) == srt

\* a stabilizer that puts the independent nodes in front and keeps them in
\* the sorted part as well
stablize_topological_order_KeepingAll(g, srt) == SelectSeq2(g.nodes, independent(g)) \o srt

stablize_topological_order(g, srt) ==
    SelectSeq2(g.nodes, independent(g)) \o RejectSeq(srt, independent(g))

(***************************************************************************)
(* prompt.rs: check_dependency, try_prompt, get_answers                    *)
(***************************************************************************)
AnswerString(s) == [kind |-> "String", s |-> s, b |-> FALSE, arr |-> <<>>]
AnswerBool(b) == [kind |-> "Bool", s |-> <<>>, b |-> b, arr |-> <<>>]
AnswerArray(arr) == [kind |-> "Array", s |-> <<>>, b |-> FALSE, arr |-> arr]

\* a parse that reads every text but "true" as false
parse_bool_Lenient(s) ==
    IF s = Str("true") THEN [ok |-> TRUE, value |-> TRUE]
    ELSE [ok |-> TRUE, value |-> FALSE]

\* <bool as FromStr>::from_str: exactly "true" and "false" parse
parse_bool(s) ==
    IF s = Str("true") THEN [ok |-> TRUE, value |-> TRUE]
    ELSE IF s = Str("false") THEN [ok |-> TRUE, value |-> FALSE]
    ELSE [ok |-> FALSE, value |-> FALSE]

\* a predicate that holds as long as its question has no answer
check_dependency_UnansweredHolds(dep, ans) ==
    LET sp == split_once(dep)
    IN IF sp.found
       THEN IF sp.head \in DOMAIN ans
            THEN LET answer == ans[sp.head]
                 IN CASE answer.kind = "String" -> answer.s = sp.tail
                      [] answer.kind = "Bool" ->
                            LET parsed == parse_bool(sp.tail)
                            IN parsed.ok /\ parsed.value = answer.b
                      [] answer.kind = "Array" -> Contains(answer.arr, sp.tail)
            ELSE TRUE
       ELSE FALSE

check_dependency(dep, ans) ==
    LET sp == split_once(dep)
    IN IF sp.found
       THEN IF sp.head \in DOMAIN ans
            THEN LET answer == ans[sp.head]
                 IN CASE answer.kind = "String" -> answer.s = sp.tail
                      [] answer.kind = "Bool" ->
                            LET parsed == parse_bool(sp.tail)
                            IN parsed.ok /\ parsed.value = answer.b
                      [] answer.kind = "Array" -> Contains(answer.arr, sp.tail)
            ELSE FALSE
       ELSE FALSE

\* an all list that is satisfied by one of its predicates
should_prompt_AnyForAll(config, ans) ==
    CASE config.dep.tag = "None" -> TRUE
      [] OTHER -> \E i \in 1..Len(config.dep.list) : check_dependency(config.dep.list[i], ans)

\* lines 313-317: raw_dependency.as_ref().is_none_or(...)
should_prompt(config, ans) ==
    CASE config.dep.tag = "None" -> TRUE
      [] config.dep.tag = "Condition" -> check_dependency(config.dep.list[1], ans)
      [] config.dep.tag = "And" ->
            \A i \in 1..Len(config.dep.list) : check_dependency(config.dep.list[i], ans)
      [] config.dep.tag = "Or" ->
            \E i \in 1..Len(config.dep.list) : check_dependency(config.dep.list[i], ans)

\* questions.get(&question_name)
HasQuestion(f, name) == \E i \in 1..Len(f) : f[i].key = name
GetQuestion(f, name) == f[CHOOSE i \in 1..Len(f) : f[i].key = name]

\* The values the prompt collaborator can hand back
TextReplies == {Str("x"), Str("true")}
ParagraphReplies == {<<>>, Str("x")}
NonEmptySubSeqs(choices) ==
    {s \in SeqsUpTo(Range(choices), Len(choices)) :
        /\ s # <<>>
        /\ \E idx \in [1..Len(s) -> 1..Len(choices)] :
              /\ \A i \in 1..Len(s) : s[i] = choices[idx[i]]
              /\ \A i \in 1..(Len(s) - 1) : idx[i] < idx[i + 1]}

\* try_prompt, successful returns: [asked, stored, answer]; a Select or MultiSelect
\* without choices returns Ok(()) without prompting and without storing
try_prompt_ok(config) ==
    CASE config.type = "Text" ->
            {[asked |-> TRUE, stored |-> TRUE, answer |-> AnswerString(s)] : s \in TextReplies}
      [] config.type = "Paragraph" ->
            {[asked |-> TRUE, stored |-> TRUE, answer |-> AnswerString(s)] : s \in ParagraphReplies}
      [] config.type = "Confirm" ->
            {[asked |-> TRUE, stored |-> TRUE, answer |-> AnswerBool(b)] : b \in BOOLEAN}
      [] config.type = "Select" ->
            IF config.choices.some
            THEN {[asked |-> TRUE, stored |-> TRUE, answer |-> AnswerString(config.choices.list[i])] :
                     i \in 1..Len(config.choices.list)}
            ELSE {[asked |-> FALSE, stored |-> FALSE, answer |-> AnswerBool(FALSE)]}
      [] config.type = "MultiSelect" ->
            IF config.choices.some
            THEN {[asked |-> TRUE, stored |-> TRUE, answer |-> AnswerArray(a)] :
                     a \in NonEmptySubSeqs(config.choices.list)}
            ELSE {[asked |-> FALSE, stored |-> FALSE, answer |-> AnswerBool(FALSE)]}

\* try_prompt can fail exactly when it reaches the prompt collaborator
try_prompt_can_fail(config) ==
    config.type \in {"Text", "Paragraph", "Confirm"} \/ config.choices.some

\* lines 302-305 (the questions file is already parsed into `file`)
GetAnswersBuildGraph ==
    /\ pc = "get_answers"
    /\ graph' = [nodes |-> Keys(file), edges |-> adjacency_list_from_file(file)]
    /\ pc' = "sort_build"
    /\ UNCHANGED <<file, dependencies_to_dependents_map, in_degree_map, queue, sorted,
                   sort_result, stablized_order, answers, widx, prompted, turns>>
    /\ UNCHANGED notGa

\* line 306: map_err(PromptError::from_sort_error)?
GetAnswersSortFailed ==
    /\ pc = "sorted"
    /\ ~sort_result.ok
    /\ pc' = "ga_err_sort"
    /\ UNCHANGED <<file, graph, dependencies_to_dependents_map, in_degree_map, queue, sorted,
                   sort_result, stablized_order, answers, widx, prompted, turns>>
    /\ UNCHANGED notGa

\* lines 307-309
GetAnswersStabilize ==
    /\ pc = "sorted"
    /\ sort_result.ok
    /\ stablized_order' = stablize_topological_order(graph, sort_result.value)
    /\ answers' = EmptyMap
    /\ widx' = 1
    /\ pc' = "walk"
    /\ UNCHANGED <<file, graph, dependencies_to_dependents_map, in_degree_map, queue, sorted,
                   sort_result, prompted, turns>>
    /\ UNCHANGED notGa

\* a question that is prompted whatever it depends on
Visible_Always(f, name, ans) == HasQuestion(f, name)

\* lines 312-319: the question is in the file and should_prompt is true
Visible(f, name, ans) == HasQuestion(f, name) /\ should_prompt(GetQuestion(f, name), ans)

\* what one iteration of the loop saw and decided
Turn(f, name, ans) == [question |-> name, answers |-> ans, should_prompt |-> Visible(f, name, ans)]

\* lines 311-322, a question that is not in the file or not visible
WalkSkip ==
    /\ pc = "walk"
    /\ widx <= Len(stablized_order)
    /\ ~Visible(file, stablized_order[widx], answers)
    /\ widx' = widx + 1
    /\ turns' = Append(turns, Turn(file, stablized_order[widx], answers))
    /\ UNCHANGED <<file, graph, dependencies_to_dependents_map, in_degree_map, queue, sorted,
                   sort_result, stablized_order, answers, prompted, pc>>
    /\ UNCHANGED notGa

\* a loop that stays at the question it has just prompted
WalkPromptOk_Again ==
    /\ pc = "walk"
    /\ widx <= Len(stablized_order)
    /\ Visible(file, stablized_order[widx], answers)
    /\ \E r \in try_prompt_ok(GetQuestion(file, stablized_order[widx])) :
          /\ answers' = IF r.stored THEN MapPut(answers, stablized_order[widx], r.answer)
                        ELSE answers
          /\ prompted' = IF r.asked THEN Append(prompted, stablized_order[widx]) ELSE prompted
    /\ turns' = Append(turns, Turn(file, stablized_order[widx], answers))
    /\ widx' = IF widx < Len(stablized_order) THEN widx ELSE widx + 1
    /\ UNCHANGED <<file, graph, dependencies_to_dependents_map, in_degree_map, queue, sorted,
                   sort_result, stablized_order, pc>>
    /\ UNCHANGED notGa

\* lines 319-321, try_prompt returns Ok(())
WalkPromptOk ==
    /\ pc = "walk"
    /\ widx <= Len(stablized_order)
    /\ Visible(file, stablized_order[widx], answers)
    /\ \E r \in try_prompt_ok(GetQuestion(file, stablized_order[widx])) :
          /\ answers' = IF r.stored THEN MapPut(answers, stablized_order[widx], r.answer)
                        ELSE answers
          /\ prompted' = IF r.asked THEN Append(prompted, stablized_order[widx]) ELSE prompted
    /\ turns' = Append(turns, Turn(file, stablized_order[widx], answers))
    /\ widx' = widx + 1
    /\ UNCHANGED <<file, graph, dependencies_to_dependents_map, in_degree_map, queue, sorted,
                   sort_result, stablized_order, pc>>
    /\ UNCHANGED notGa

\* a failed prompt after which the loop goes on with the next question
WalkPromptErr_Continue ==
    /\ pc = "walk"
    /\ widx <= Len(stablized_order)
    /\ Visible(file, stablized_order[widx], answers)
    /\ try_prompt_can_fail(GetQuestion(file, stablized_order[widx]))
    /\ prompted' = Append(prompted, stablized_order[widx])
    /\ turns' = Append(turns, Turn(file, stablized_order[widx], answers))
    /\ widx' = widx + 1
    /\ UNCHANGED <<file, graph, dependencies_to_dependents_map, in_degree_map, queue, sorted,
                   sort_result, stablized_order, answers, pc>>
    /\ UNCHANGED notGa

\* lines 319-321, try_prompt returns Err and `?` returns it
WalkPromptErr ==
    /\ pc = "walk"
    /\ widx <= Len(stablized_order)
    /\ Visible(file, stablized_order[widx], answers)
    /\ try_prompt_can_fail(GetQuestion(file, stablized_order[widx]))
    /\ prompted' = Append(prompted, stablized_order[widx])
    /\ turns' = Append(turns, Turn(file, stablized_order[widx], answers))
    /\ pc' = "ga_err_prompt"
    /\ UNCHANGED <<file, graph, dependencies_to_dependents_map, in_degree_map, queue, sorted,
                   sort_result, stablized_order, answers, widx>>
    /\ UNCHANGED notGa

\* line 325
GetAnswersReturn ==
    /\ pc = "walk"
    /\ widx > Len(stablized_order)
    /\ pc' = "ga_ok"
    /\ UNCHANGED <<file, graph, dependencies_to_dependents_map, in_degree_map, queue, sorted,
                   sort_result, stablized_order, answers, widx, prompted, turns>>
    /\ UNCHANGED notGa

(***************************************************************************)
(* Paths and the filesystem.  A PathBuf is the sequence of its components  *)
(* (Path::components), an absolute one starts with RootDir.  The disk maps *)
(* every location (the components from the filesystem root) to what is     *)
(* there.                                                                  *)
(***************************************************************************)
RootDir == Str("/")
ParentDir == Str("..")
Cwd == <<Str("cwd")>>

IsAbsolute(path) == path # <<>> /\ path[1] = RootDir

\* Path::join / PathBuf::push: an absolute argument replaces the path
Join(base, path) == IF IsAbsolute(path) THEN path ELSE base \o path

\* Path::parent: None for the empty path and for the root
HasParent(path) == path # <<>> /\ path # <<RootDir>>
Parent(path) == SubSeq(path, 1, Len(path) - 1)

RECURSIVE Normalize(_, _)
\* the location a component sequence leads to, ".." stepping up
Normalize(done, todo) ==
    IF todo = <<>> THEN done
    ELSE IF Head(todo) = ParentDir
         THEN Normalize(IF done = <<>> THEN <<>> ELSE SubSeq(done, 1, Len(done) - 1), Tail(todo))
         ELSE Normalize(Append(done, Head(todo)), Tail(todo))

Resolve(path) == IF IsAbsolute(path) THEN Normalize(<<>>, Tail(path)) ELSE Normalize(Cwd, path)

Dir == [kind |-> "dir", content |-> <<>>]
File(content) == [kind |-> "file", content |-> content]

IsDir(d, loc) == loc \in DOMAIN d /\ d[loc].kind = "dir"
IsFile(d, loc) == loc \in DOMAIN d /\ d[loc].kind = "file"
Prefix(loc, k) == SubSeq(loc, 1, k)
IsUnder(loc, top) == Len(loc) >= Len(top) /\ Prefix(loc, Len(top)) = top

FsOk(d) == [ok |-> TRUE, disk |-> d]
FsErr(d) == [ok |-> FALSE, disk |-> d]

\* the disk d with the first j missing ancestors-or-self of loc made directories
WithDirs(d, loc, j) ==
    LET missing == {k \in 1..Len(loc) : Prefix(loc, k) \notin DOMAIN d}
        first == IF missing = {} THEN 1 ELSE CHOOSE k \in missing : \A m \in missing : k <= m
        made == {Prefix(loc, k) : k \in {k \in missing : k < first + j}}
    IN [l \in (DOMAIN d) \cup made |-> IF l \in DOMAIN d THEN d[l] ELSE Dir]

MissingCount(d, loc) == Cardinality({k \in 1..Len(loc) : Prefix(loc, k) \notin DOMAIN d})

\* std::fs::create_dir_all: Ok when the directory is there afterwards; an error
\* when a file is in the way, or when the system refuses a mkdir (io_error),
\* after which the ancestors made so far stay
create_dir_all(d, path, io_error) ==
    LET loc == Resolve(path)
        n == MissingCount(d, loc)
    IN IF path = <<>> THEN {FsOk(d)}
       ELSE IF \E k \in 0..Len(loc) : IsFile(d, Prefix(loc, k)) THEN {FsErr(d)}
       ELSE IF io_error THEN {FsErr(WithDirs(d, loc, j)) : j \in 0..(IF n = 0 THEN 0 ELSE n - 1)}
       ELSE {FsOk(WithDirs(d, loc, n))}

\* std::fs::write: creates or truncates the file; an error when the parent is no
\* directory or the path is a directory, or when the system refuses (io_error),
\* which can leave the file created and empty
fs_write(d, path, contents, io_error) ==
    LET loc == Resolve(path)
    IN IF loc = <<>> \/ ~IsDir(d, Parent(loc)) \/ IsDir(d, loc) THEN {FsErr(d)}
       ELSE IF io_error
            THEN {FsErr(d), FsErr([l \in (DOMAIN d) \cup {loc} |->
                                      IF l = loc THEN File(<<>>) ELSE d[l]])}
       ELSE {FsOk([l \in (DOMAIN d) \cup {loc} |-> IF l = loc THEN File(contents) ELSE d[l]])}

\* std::fs::remove_file
remove_file(d, path, io_error) ==
    LET loc == Resolve(path)
    IN IF ~IsFile(d, loc) \/ io_error THEN FsErr(d)
       ELSE FsOk([l \in (DOMAIN d) \ {loc} |-> d[l]])

\* std::fs::remove_dir_all
remove_dir_all(d, path, io_error) ==
    LET loc == Resolve(path)
    IN IF ~IsDir(d, loc) \/ io_error THEN FsErr(d)
       ELSE FsOk([l \in {l \in DOMAIN d : ~IsUnder(l, loc)} |-> d[l]])

(***************************************************************************)
(* transactions.rs                                                         *)
(***************************************************************************)
RemoveFile(path) == [kind |-> "RemoveFile", path |-> path]
RemoveDir(path) == [kind |-> "RemoveDir", path |-> path]

NoTransaction == [state |-> "None", rollback_operations |-> <<>>]

\* a Canceled transaction that rolls nothing back
SHOULD_ROLLBACK_ActiveOnly(state) == state = "Active"

\* TransactionState::SHOULD_ROLLBACK
SHOULD_ROLLBACK(state) ==
    CASE state = "Active" -> TRUE
      [] state = "Committed" -> FALSE
      [] state = "Canceled" -> TRUE
      [] OTHER -> FALSE

\* Transaction::<Active>::new
TransactionNew == [state |-> "Active", rollback_operations |-> <<>>]

add_operation(t, operation) ==
    [t EXCEPT !.rollback_operations = Append(@, operation)]

\* a commit that leaves the log on the value it consumes
commit_self_Keep(t) == t

\* commit, the consumed self after self.rollback_operations.clear()
commit_self(t) == [t EXCEPT !.rollback_operations = <<>>]

\* commit, the returned Transaction<Committed>
commit(t) == [state |-> "Committed", rollback_operations |-> <<>>]

\* a cancel that copies the log and leaves it on the value it consumes
cancel_self_Cloning(t) == t

\* cancel, the consumed self after std::mem::take
cancel_self(t) == [t EXCEPT !.rollback_operations = <<>>]

\* cancel, the returned Transaction<Canceled>
cancel(t) == [state |-> "Canceled", rollback_operations |-> t.rollback_operations]

\* std::fs::remove_dir: removes a directory that is empty
remove_dir(d, path, io_error) ==
    LET loc == Resolve(path)
    IN IF ~IsDir(d, loc) \/ io_error \/ \E l \in DOMAIN d : IsUnder(l, loc) /\ l # loc
       THEN FsErr(d)
       ELSE FsOk([l \in (DOMAIN d) \ {loc} |-> d[l]])

\* an undo that removes directories with remove_dir
UndoOperation_EmptyDirsOnly(operation, d, io_error) ==
    CASE operation.kind = "RemoveDir" -> remove_dir(d, operation.path, io_error)
      [] operation.kind = "RemoveFile" -> remove_file(d, operation.path, io_error)

\* lines 135-144: one popped operation
UndoOperation(operation, d, io_error) ==
    CASE operation.kind = "RemoveDir" -> remove_dir_all(d, operation.path, io_error)
      [] operation.kind = "RemoveFile" -> remove_file(d, operation.path, io_error)

Reverse(s) == [i \in 1..Len(s) |-> s[Len(s) + 1 - i]]

RECURSIVE DropNow(_, _, _)
\* Drop::drop run to its end with no I/O error: [disk, undone]
DropNow(t, d, u) ==
    IF SHOULD_ROLLBACK(t.state) /\ t.rollback_operations # <<>>
    THEN LET n == Len(t.rollback_operations)
             operation == t.rollback_operations[n]
         IN DropNow([t EXCEPT !.rollback_operations = SubSeq(@, 1, n - 1)],
                    UndoOperation(operation, d, FALSE).disk, Append(u, operation))
    ELSE [disk |-> d, undone |-> u]

MaxUndoFailures == 1

\* a rollback that gives up at the first removal that fails
DropRollbackStep_GivingUp ==
    /\ pc \in {"unwind", "drop_returned"}
    /\ SHOULD_ROLLBACK(trx.state)
    /\ trx.rollback_operations # <<>>
    /\ LET n == Len(trx.rollback_operations)
           operation == trx.rollback_operations[n]
       IN /\ trx' = [trx EXCEPT !.rollback_operations = SubSeq(@, 1, n - 1)]
          /\ undone' = Append(undone, operation)
          /\ \E io_error \in {FALSE} \cup {b \in {TRUE} : undo_failures < MaxUndoFailures} :
                /\ disk' = UndoOperation(operation, disk, io_error).disk
                /\ undo_failures' = IF io_error THEN undo_failures + 1 ELSE undo_failures
                /\ pc' = IF UndoOperation(operation, disk, io_error).ok THEN pc ELSE "done"
    /\ UNCHANGED <<disk0, recorded, result>>
    /\ UNCHANGED <<gaVars_but_pc, cdVars, renderVars>>

\* a rollback that takes the operations from the front of the log
DropRollbackStep_OldestFirst ==
    /\ pc \in {"unwind", "drop_returned"}
    /\ SHOULD_ROLLBACK(trx.state)
    /\ trx.rollback_operations # <<>>
    /\ LET operation == Head(trx.rollback_operations)
       IN /\ trx' = [trx EXCEPT !.rollback_operations = Tail(@)]
          /\ undone' = Append(undone, operation)
          /\ \E io_error \in {FALSE} \cup {b \in {TRUE} : undo_failures < MaxUndoFailures} :
                /\ disk' = UndoOperation(operation, disk, io_error).disk
                /\ undo_failures' = IF io_error THEN undo_failures + 1 ELSE undo_failures
    /\ UNCHANGED <<disk0, recorded, result, pc>>
    /\ UNCHANGED <<gaVars_but_pc, cdVars, renderVars>>

\* lines 132-145: one iteration of the while loop of Drop::drop; the error of a
\* failed removal is dropped (let _ =)
DropRollbackStep ==
    /\ pc \in {"unwind", "drop_returned"}
    /\ SHOULD_ROLLBACK(trx.state)
    /\ trx.rollback_operations # <<>>
    /\ LET n == Len(trx.rollback_operations)
           operation == trx.rollback_operations[n]
       IN /\ trx' = [trx EXCEPT !.rollback_operations = SubSeq(@, 1, n - 1)]
          /\ undone' = Append(undone, operation)
          /\ \E io_error \in {FALSE} \cup {b \in {TRUE} : undo_failures < MaxUndoFailures} :
                /\ disk' = UndoOperation(operation, disk, io_error).disk
                /\ undo_failures' = IF io_error THEN undo_failures + 1 ELSE undo_failures
    /\ UNCHANGED <<disk0, recorded, result, pc>>
    /\ UNCHANGED <<gaVars_but_pc, cdVars, renderVars>>

\* the end of Drop::drop: nothing to roll back, or nothing left
DropFinish ==
    /\ pc \in {"unwind", "drop_returned"}
    /\ ~(SHOULD_ROLLBACK(trx.state) /\ trx.rollback_operations # <<>>)
    /\ pc' = "done"
    /\ UNCHANGED <<trxVars, gaVars_but_pc, cdVars, renderVars>>

(***************************************************************************)
(* The template engine (tera) on token strings.  A template expression is  *)
(* one token: "{{k}}" prints the value of k, "{%if k%}" ... "{%endif%}"    *)
(* keeps what is between them when k is truthy.                            *)
(***************************************************************************)
VarTokens == ("{{name}}" :> Str("name")) @@ ("{{flag}}" :> Str("flag"))
IfTokens == ("{%if flag%}" :> Str("flag")) @@ ("{%if name%}" :> Str("name"))
EndIf == "{%endif%}"
Whitespace == {" "}

\* how tera prints a value
ValueText(answer) ==
    CASE answer.kind = "String" -> answer.s
      [] answer.kind = "Bool" -> IF answer.b THEN Str("true") ELSE Str("false")
      [] answer.kind = "Array" -> <<"[">> \o
            (IF answer.arr = <<>> THEN <<>> ELSE answer.arr[1]) \o <<"]">>

\* tera's truthiness; an undefined variable is falsy
Truthy(ctx, k) ==
    /\ k \in DOMAIN ctx
    /\ CASE ctx[k].kind = "String" -> ctx[k].s # <<>>
         [] ctx[k].kind = "Bool" -> ctx[k].b
         [] ctx[k].kind = "Array" -> ctx[k].arr # <<>>

RenderOk(out) == [ok |-> TRUE, out |-> out]
RenderErr == [ok |-> FALSE, out |-> <<>>]

RECURSIVE RenderFrom(_, _, _, _)
\* mode: "top", or inside an if block that is kept ("keep") or dropped ("drop")
RenderFrom(s, ctx, mode, out) ==
    IF s = <<>> THEN (IF mode = "top" THEN RenderOk(out) ELSE RenderErr)
    ELSE LET tok == Head(s)
         IN IF tok \in DOMAIN IfTokens
            THEN IF mode # "top" THEN RenderErr
                 ELSE RenderFrom(Tail(s), ctx,
                                 IF Truthy(ctx, IfTokens[tok]) THEN "keep" ELSE "drop", out)
            ELSE IF tok = EndIf
            THEN IF mode = "top" THEN RenderErr ELSE RenderFrom(Tail(s), ctx, "top", out)
            ELSE IF mode = "drop" THEN RenderFrom(Tail(s), ctx, mode, out)
            ELSE IF tok \in DOMAIN VarTokens
            THEN IF VarTokens[tok] \in DOMAIN ctx
                 THEN RenderFrom(Tail(s), ctx, mode, out \o ValueText(ctx[VarTokens[tok]]))
                 ELSE RenderErr
            ELSE RenderFrom(Tail(s), ctx, mode, Append(out, tok))

\* Tera::render_str
render_str(s, ctx) == RenderFrom(s, ctx, "top", <<>>)

RECURSIVE TrimStart(_)
TrimStart(s) == IF s # <<>> /\ Head(s) \in Whitespace THEN TrimStart(Tail(s)) ELSE s

\* a trim that takes nothing away
Trim_Nothing(s) == s

\* str::trim
Trim(s) == Reverse(TrimStart(Reverse(TrimStart(s))))

(***************************************************************************)
(* std::path on token strings: "/" separates components, "." starts the    *)
(* extension                                                               *)
(***************************************************************************)
Slash == "/"
Dot == "."
CurDir == Str(".")

RECURSIVE SplitSlash(_, _)
\* the components of a text: split at "/", empty pieces and "." pieces dropped
SplitSlash(s, cur) ==
    LET flush == IF cur = <<>> \/ cur = CurDir THEN <<>> ELSE <<cur>>
    IN IF s = <<>> THEN flush
       ELSE IF Head(s) = Slash THEN flush \o SplitSlash(Tail(s), <<>>)
       ELSE SplitSlash(Tail(s), Append(cur, Head(s)))

\* PathBuf::from(text)
PathFrom(text) ==
    IF text # <<>> /\ Head(text) = Slash THEN <<RootDir>> \o SplitSlash(text, <<>>)
    ELSE SplitSlash(text, <<>>)

\* PathBuf::push(text)
Push(path, text) == Join(path, PathFrom(text))

\* Path::file_name: the last component unless it is "..", "/" or missing
HasFileName(path) == path # <<>> /\ path[Len(path)] \notin {ParentDir, RootDir}
FileName(path) == path[Len(path)]

\* the position of the dot that starts the extension, 0 when there is none
ExtensionDot(name) ==
    LET dots == {i \in 2..Len(name) : name[i] = Dot}
    IN IF dots = {} THEN 0 ELSE CHOOSE i \in dots : \A j \in dots : j <= i

\* Path::extension
HasExtension(path) == HasFileName(path) /\ ExtensionDot(FileName(path)) > 0
Extension(path) ==
    SubSeq(FileName(path), ExtensionDot(FileName(path)) + 1, Len(FileName(path)))

\* Path::file_stem
FileStem(path) ==
    IF ~HasFileName(path) THEN <<>>
    ELSE IF ExtensionDot(FileName(path)) = 0 THEN FileName(path)
    ELSE SubSeq(FileName(path), 1, ExtensionDot(FileName(path)) - 1)

\* PathBuf::set_file_name
SetFileName(path, name) ==
    Push(IF HasFileName(path) THEN Parent(path) ELSE path, name)

(***************************************************************************)
(* template.rs: render_path_segments, build_vfs                            *)
(***************************************************************************)
TERA_FILE_EXTENSION == Str("tera")
\* another reserved name
BlueprintToml_Other == <<"questions", Dot, "toml">>

\* line 130
BlueprintToml == <<"blueprint", Dot, "toml">>

\* make_tera_context: every answer goes into the context under its key
make_tera_context(ans) == ans

PathSome(path) == [ok |-> TRUE, some |-> TRUE, path |-> path]
PathNone == [ok |-> TRUE, some |-> FALSE, path |-> <<>>]
PathErr == [ok |-> FALSE, some |-> FALSE, path |-> <<>>]

RECURSIVE render_path_segments_from(_, _, _)
render_path_segments_from(components, ctx, res) ==
    IF components = <<>> THEN PathSome(res)
    ELSE LET rendered == render_str(Head(components), ctx)
         IN IF ~rendered.ok THEN PathErr
            ELSE IF Trim(rendered.out) = <<>> THEN PathNone
            ELSE render_path_segments_from(Tail(components), ctx, Push(res, Trim(rendered.out)))

render_path_segments(path, ctx) == render_path_segments_from(path, ctx, <<>>)

DirEntry(dest) ==
    [destination |-> [some |-> TRUE, path |-> dest],
     content |-> [some |-> FALSE, text |-> <<>>], is_file |-> FALSE]
FileEntry(dest, text) ==
    [destination |-> [some |-> TRUE, path |-> dest],
     content |-> [some |-> TRUE, text |-> text], is_file |-> TRUE]

VfsOk(entries) == [ok |-> TRUE, entries |-> entries]
VfsErr == [ok |-> FALSE, entries |-> <<>>]

\* no file is taken for a template
is_tera_Never(rendered_path) == FALSE

\* lines 166-169
is_tera(rendered_path) ==
    HasExtension(rendered_path) /\ Extension(rendered_path) = TERA_FILE_EXTENSION

RECURSIVE build_vfs_from(_, _, _)
\* lines 114-192: the loop over the WalkDir entries, entries staged so far in acc
build_vfs_from(walk, ctx, acc) ==
    IF walk = <<>> THEN VfsOk(acc)
    ELSE LET entry == Head(walk)
             rendered_rel_path == render_path_segments(entry.relative, ctx)
         IN IF entry.file_name = BlueprintToml THEN build_vfs_from(Tail(walk), ctx, acc)
            ELSE IF ~rendered_rel_path.ok THEN VfsErr
            ELSE IF ~rendered_rel_path.some THEN build_vfs_from(Tail(walk), ctx, acc)
            ELSE IF entry.is_dir
            THEN build_vfs_from(Tail(walk), ctx, Append(acc, DirEntry(rendered_rel_path.path)))
            ELSE IF is_tera(rendered_rel_path.path)
            THEN LET rendered == render_str(entry.content, ctx)
                     final_dest == SetFileName(rendered_rel_path.path,
                                               FileStem(rendered_rel_path.path))
                 IN IF ~rendered.ok THEN VfsErr
                    ELSE build_vfs_from(Tail(walk), ctx,
                                        Append(acc, FileEntry(final_dest, rendered.out)))
            ELSE build_vfs_from(Tail(walk), ctx,
                                Append(acc, FileEntry(rendered_rel_path.path, entry.content)))

build_vfs(walk, ctx) == build_vfs_from(walk, ctx, <<>>)

(***************************************************************************)
(* template.rs: create_directory, write_file, apply_vfs, try_render        *)
(***************************************************************************)
\* the outcomes of a step of apply_vfs: the disk, the transaction, and what was
\* recorded on it
Applied(d, t, operation) ==
    [ok |-> TRUE, disk |-> d, trx |-> add_operation(t, operation), operations |-> <<operation>>]
NotApplied(d, t) == [ok |-> FALSE, disk |-> d, trx |-> t, operations |-> <<>>]

\* a creation of a directory that records no undo operation
create_directory_Unrecorded(t, d, path, io_error) ==
    {IF made.ok THEN [ok |-> TRUE, disk |-> made.disk, trx |-> t, operations |-> <<>>]
     ELSE NotApplied(made.disk, t) : made \in create_dir_all(d, path, io_error)}

\* lines 295-305
create_directory(t, d, path, io_error) ==
    {IF made.ok THEN Applied(made.disk, t, RemoveDir(path)) ELSE NotApplied(made.disk, t) :
        made \in create_dir_all(d, path, io_error)}

\* a write that records the removal before it is known to have succeeded
write_file_RecordingFirst(t, d, path, contents, io_error) ==
    {[ok |-> written.ok, disk |-> written.disk, trx |-> add_operation(t, RemoveFile(path)),
      operations |-> <<RemoveFile(path)>>] : written \in fs_write(d, path, contents, io_error)}

\* lines 315-330
write_file(t, d, path, contents, io_error) ==
    {IF written.ok THEN Applied(written.disk, t, RemoveFile(path))
     ELSE NotApplied(written.disk, t) : written \in fs_write(d, path, contents, io_error)}

\* only the directories that stand before the first file of the list
Directories_BeforeFirstFile(entries) ==
    LET files == {k \in 1..Len(entries) : entries[k].is_file}
        first == IF files = {} THEN Len(entries) + 1
                 ELSE CHOOSE k \in files : \A m \in files : k <= m
    IN SubSeq(entries, 1, first - 1)

\* lines 203 and 213: the two filters over vfs.entries
Directories(entries) == SelectSeq(entries, LAMBDA e : ~e.is_file)
Files(entries) == SelectSeq(entries, LAMBDA e : e.is_file)

\* lines 207 and 217
FinalPath(root, entry) == Join(root, entry.destination.path)

\* lines 250-257: the project is looked up in the configuration
TryRenderLookup ==
    /\ pc = "try_render"
    /\ \E found \in BOOLEAN :
          IF found THEN pc' = "get_answers" /\ result' = result
          ELSE pc' = "done" /\ result' = "Err"
    /\ UNCHANGED <<disk, disk0, trx, recorded, undone, undo_failures>>
    /\ UNCHANGED <<gaVars_but_pc, cdVars, renderVars>>

\* line 261: get_answers(..)? returned the error
TryRenderAnswersFailed ==
    /\ pc \in {"ga_err_sort", "ga_err_prompt"}
    /\ pc' = "done"
    /\ result' = "Err"
    /\ UNCHANGED <<disk, disk0, trx, recorded, undone, undo_failures>>
    /\ UNCHANGED <<gaVars_but_pc, cdVars, renderVars>>

\* lines 263-268: Tera::new on the blueprint's glob pattern succeeds or fails
TryRenderTera ==
    /\ pc = "ga_ok"
    /\ \E initialized \in BOOLEAN :
          IF initialized THEN pc' = "build_vfs" /\ result' = result
          ELSE pc' = "done" /\ result' = "Err"
    /\ UNCHANGED <<disk, disk0, trx, recorded, undone, undo_failures>>
    /\ UNCHANGED <<gaVars_but_pc, cdVars, renderVars>>

\* a build that makes the destination directory while it walks the blueprint
TryRenderBuildVfs_Writing ==
    /\ pc = "build_vfs"
    /\ \E io_error \in BOOLEAN :
          LET built == build_vfs(blueprint, make_tera_context(answers))
          IN IF ~io_error /\ built.ok
             THEN vfs' = built.entries /\ pc' = "preview" /\ result' = result
             ELSE vfs' = vfs /\ pc' = "done" /\ result' = "Err"
    /\ \E made \in create_dir_all(disk, destination, FALSE) : disk' = made.disk
    /\ UNCHANGED <<disk0, trx, recorded, undone, undo_failures>>
    /\ UNCHANGED <<gaVars_but_pc, cdVars, destination, blueprint, aidx, confirmed>>

\* line 270: build_vfs(..)?; walking the directory or reading a file can fail
\* (io_error)
TryRenderBuildVfs ==
    /\ pc = "build_vfs"
    /\ \E io_error \in BOOLEAN :
          LET built == build_vfs(blueprint, make_tera_context(answers))
          IN IF ~io_error /\ built.ok
             THEN vfs' = built.entries /\ pc' = "preview" /\ result' = result
             ELSE vfs' = vfs /\ pc' = "done" /\ result' = "Err"
    /\ UNCHANGED <<disk, disk0, trx, recorded, undone, undo_failures>>
    /\ UNCHANGED <<gaVars_but_pc, cdVars, destination, blueprint, aidx, confirmed>>

\* lines 272-276: the preview is printed and the transaction is opened
TryRenderNewTransaction ==
    /\ pc = "preview"
    /\ trx' = TransactionNew
    /\ pc' = "apply_changes"
    /\ UNCHANGED <<disk, disk0, recorded, undone, undo_failures, result>>
    /\ UNCHANGED <<gaVars_but_pc, cdVars, renderVars>>

\* a run that applies the VFS whatever the user replied
apply_changes_branch_Always(reply) == IF reply = "err" THEN "unwind" ELSE "apply_dirs"

\* lines 278-284: where try_render goes on the reply of apply_changes()?
apply_changes_branch(reply) ==
    CASE reply = "yes" -> "apply_dirs"
      [] reply = "no" -> "declined"
      [] reply = "err" -> "unwind"

\* line 278: the confirmation prompt
TryRenderApplyChanges ==
    /\ pc = "apply_changes"
    /\ \E reply \in {"yes", "no", "err"} :
          /\ confirmed' = reply
          /\ pc' = apply_changes_branch(reply)
          /\ result' = IF reply = "err" THEN "Err" ELSE result
    /\ aidx' = 1
    /\ UNCHANGED <<disk, disk0, trx, recorded, undone, undo_failures>>
    /\ UNCHANGED <<gaVars_but_pc, cdVars, destination, blueprint, vfs>>

\* a step of apply_vfs that goes on after an error
ApplyOutcome_GoingOn(out, next_pc, next_aidx) ==
    /\ disk' = out.disk
    /\ trx' = out.trx
    /\ recorded' = recorded \o out.operations
    /\ pc' = next_pc /\ aidx' = next_aidx /\ result' = result
    /\ UNCHANGED <<disk0, undone, undo_failures>>
    /\ UNCHANGED <<gaVars_but_pc, cdVars, destination, blueprint, vfs, confirmed>>

\* what a step of apply_vfs does with one of its outcomes: on an error `?`
\* returns it out of apply_vfs and out of try_render
ApplyOutcome(out, next_pc, next_aidx) ==
    /\ disk' = out.disk
    /\ trx' = out.trx
    /\ recorded' = recorded \o out.operations
    /\ IF out.ok THEN pc' = next_pc /\ aidx' = next_aidx /\ result' = result
       ELSE pc' = "unwind" /\ aidx' = aidx /\ result' = "Err"
    /\ UNCHANGED <<disk0, undone, undo_failures>>
    /\ UNCHANGED <<gaVars_but_pc, cdVars, destination, blueprint, vfs, confirmed>>

\* lines 203-210: one iteration of the loop over the directories
ApplyVfsDirectory ==
    /\ pc = "apply_dirs"
    /\ aidx <= Len(Directories(vfs))
    /\ LET entry == Directories(vfs)[aidx]
       IN IF ~entry.destination.some
          THEN ApplyOutcome([ok |-> TRUE, disk |-> disk, trx |-> trx, operations |-> <<>>],
                            pc, aidx + 1)
          ELSE \E io_error \in BOOLEAN :
                  \E out \in create_directory(trx, disk, FinalPath(destination, entry), io_error) :
                      ApplyOutcome(out, pc, aidx + 1)

\* line 213: the loop over the directories is over
ApplyVfsFilesStart ==
    /\ pc = "apply_dirs"
    /\ aidx > Len(Directories(vfs))
    /\ pc' = "apply_files"
    /\ aidx' = 1
    /\ UNCHANGED <<trxVars, gaVars_but_pc, cdVars, destination, blueprint, vfs, confirmed>>

\* lines 213-222: the parent of the file is created when the path has one
ApplyVfsFileParent ==
    /\ pc = "apply_files"
    /\ aidx <= Len(Files(vfs))
    /\ LET entry == Files(vfs)[aidx]
           final_path == FinalPath(destination, entry)
       IN IF ~entry.destination.some
          THEN ApplyOutcome([ok |-> TRUE, disk |-> disk, trx |-> trx, operations |-> <<>>],
                            pc, aidx + 1)
          ELSE IF ~HasParent(final_path)
          THEN ApplyOutcome([ok |-> TRUE, disk |-> disk, trx |-> trx, operations |-> <<>>],
                            "apply_write", aidx)
          ELSE \E io_error \in BOOLEAN :
                  \E out \in create_directory(trx, disk, Parent(final_path), io_error) :
                      ApplyOutcome(out, "apply_write", aidx)

\* lines 224-226: the file is written
ApplyVfsFileWrite ==
    /\ pc = "apply_write"
    /\ LET entry == Files(vfs)[aidx]
           contents == IF entry.content.some THEN entry.content.text ELSE <<>>
       IN \E io_error \in BOOLEAN :
             \E out \in write_file(trx, disk, FinalPath(destination, entry), contents, io_error) :
                 ApplyOutcome(out, "apply_files", aidx + 1)

\* line 229: apply_vfs returns Ok(())
ApplyVfsReturn ==
    /\ pc = "apply_files"
    /\ aidx > Len(Files(vfs))
    /\ pc' = "commit"
    /\ UNCHANGED <<trxVars, gaVars_but_pc, cdVars, renderVars>>

(***************************************************************************)
(* A client of the Transaction type: new, add_operation, then commit,      *)
(* cancel or leaving the scope, and the drop of what is left               *)
(***************************************************************************)
MaxOps == 3

TrxNew ==
    /\ pc = "trx_new"
    /\ trx' = TransactionNew
    /\ pc' = "trx_active"
    /\ UNCHANGED <<disk, disk0, recorded, undone, undo_failures, result>>
    /\ UNCHANGED <<gaVars_but_pc, cdVars, renderVars>>

\* the operations a client records: removals of out, out/a and out/d
TrxPaths == {<<Str("out")>>, <<Str("out"), Str("a")>>, <<Str("out"), Str("d")>>}
TrxOperations(paths) == {RemoveFile(q) : q \in paths} \cup {RemoveDir(q) : q \in paths}

TrxAddOperation ==
    /\ pc = "trx_active"
    /\ Len(trx.rollback_operations) < MaxOps
    /\ \E operation \in TrxOperations(TrxPaths) :
          /\ trx' = add_operation(trx, operation)
          /\ recorded' = Append(recorded, operation)
    /\ UNCHANGED <<disk, disk0, undone, undo_failures, result, pc>>
    /\ UNCHANGED <<gaVars_but_pc, cdVars, renderVars>>

\* a commit that borrows the transaction: the client keeps using it
TrxCommit_Borrowing ==
    /\ pc \in {"trx_active", "commit"}
    /\ trx' = commit(trx)
    /\ result' = "Committed"
    /\ pc' = IF pc = "trx_active" THEN "trx_active" ELSE "drop_returned"
    /\ UNCHANGED <<disk, undone, disk0, recorded, undo_failures>>
    /\ UNCHANGED <<gaVars_but_pc, cdVars, renderVars>>

\* commit(self): clears the log of self, builds the Committed value, and self
\* is dropped when commit returns
TrxCommit ==
    /\ pc \in {"trx_active", "commit"}
    /\ LET dropped == DropNow(commit_self(trx), disk, undone)
       IN /\ disk' = dropped.disk
          /\ undone' = dropped.undone
    /\ trx' = commit(trx)
    /\ result' = "Committed"
    /\ pc' = "drop_returned"
    /\ UNCHANGED <<disk0, recorded, undo_failures>>
    /\ UNCHANGED <<gaVars_but_pc, cdVars, renderVars>>

\* cancel(self): takes the log out of self into the Canceled value, and self is
\* dropped when cancel returns
TrxCancel ==
    /\ pc \in {"trx_active", "declined"}
    /\ LET dropped == DropNow(cancel_self(trx), disk, undone)
       IN /\ disk' = dropped.disk
          /\ undone' = dropped.undone
    /\ trx' = cancel(trx)
    /\ result' = "Canceled"
    /\ pc' = "drop_returned"
    /\ UNCHANGED <<disk0, recorded, undo_failures>>
    /\ UNCHANGED <<gaVars_but_pc, cdVars, renderVars>>

\* the Active value goes out of scope
TrxLeaveScope ==
    /\ pc = "trx_active"
    /\ pc' = "unwind"
    /\ UNCHANGED <<trxVars, gaVars_but_pc, cdVars, renderVars>>

(***************************************************************************)
(* Question files                                                          *)
(***************************************************************************)
NoChoices == [some |-> FALSE, list |-> <<>>]
SomeChoices(l) == [some |-> TRUE, list |-> l]

QuestionKeys == <<Str("a"), Str("b"), Str("c"), Str("d")>>
UnknownKey == Str("z")

\* what a dependency string can name before its ':'
SortSources == {k[1] : k \in Range(QuestionKeys) \cup {UnknownKey}}

\* the dependencies of the file as (source, index of the dependent question)
\* pairs, grouped by question in file order, at most MaxEdges in all
DependencyLists(n) ==
    {e \in SeqsUpTo(SortSources \X (1..n), MaxEdges) :
        \A i \in 1..(Len(e) - 1) : e[i][2] <= e[i + 1][2]}

\* the dependency of question i: none, a Condition, or an all/any list
DependencyOf(e, i, any) ==
    LET mine == SelectSeq(e, LAMBDA x : x[2] = i)
        list == [j \in 1..Len(mine) |-> <<mine[j][1], Colon, "x">>]
    IN IF list = <<>> THEN NoDependency
       ELSE IF any THEN Or(list)
       ELSE IF Len(list) = 1 THEN Condition(list[1])
       ELSE And(list)

MkFile(n, e, any) ==
    [i \in 1..n |-> [key |-> QuestionKeys[i], type |-> "Text", choices |-> NoChoices,
                     dep |-> DependencyOf(e, i, any)]]

SortFiles(n) == {MkFile(n, e, any) : e \in DependencyLists(n), any \in BOOLEAN}

\* get_answers is entered with the parsed questions file f
GaStart(f, at) ==
    /\ file = f
    /\ graph = [nodes |-> <<>>, edges |-> <<>>]
    /\ dependencies_to_dependents_map = EmptyMap
    /\ in_degree_map = EmptyMap
    /\ queue = <<>>
    /\ sorted = <<>>
    /\ sort_result = NoResult
    /\ stablized_order = <<>>
    /\ answers = EmptyMap
    /\ widx = 0
    /\ prompted = <<>>
    /\ turns = <<>>
    /\ pc = at

CdIdle ==
    /\ cd_dep = <<>>
    /\ cd_answers = EmptyMap
    /\ cd_result = [done |-> FALSE, value |-> FALSE]

EmptyDisk == (<<>> :> Dir) @@ (Cwd :> Dir)

TrxIdle ==
    /\ disk = EmptyDisk
    /\ disk0 = EmptyDisk
    /\ trx = NoTransaction
    /\ recorded = <<>>
    /\ undone = <<>>
    /\ undo_failures = 0
    /\ result = "none"

RenderIdle ==
    /\ destination = <<>>
    /\ blueprint = <<>>
    /\ vfs = <<>>
    /\ aidx = 0
    /\ confirmed = "none"

InitSort ==
    /\ RenderIdle
    /\ \E n \in 0..Len(QuestionKeys) : \E f \in SortFiles(n) : GaStart(f, "get_answers")
    /\ CdIdle
    /\ TrxIdle

NextSort ==
    \/ GetAnswersBuildGraph
    \/ SortBuild
    \/ SortPop
    \/ SortReturn
    \/ GetAnswersSortFailed
    \/ GetAnswersStabilize

SpecSort == InitSort /\ [][NextSort]_vars

(***************************************************************************)
(* sort_graph on its own, on any graph: nodes in edges that are no nodes   *)
(* of the graph, copies of edges, loops and cycles included                *)
(***************************************************************************)
\* the node lists: a alone, or a and b (z is never a node)
GraphNodeLists == {<<Str("a")>>, <<Str("a"), Str("b")>>}

\* the edges: the loop on a, a to b and back, and edges from and to z
GraphEdges ==
    {<<Str("a"), Str("a")>>, <<Str("a"), Str("b")>>, <<Str("b"), Str("a")>>,
     <<Str("z"), Str("a")>>, <<Str("a"), Str("z")>>, <<Str("b"), Str("z")>>}

\* the edge lists, copies of an edge included
GraphEdgeLists(n) == SeqsUpTo(GraphEdges, n)

\* sort_graph is called with a graph
InitGraph ==
    /\ file = <<>>
    /\ graph \in {[nodes |-> ns, edges |-> es] :
                     ns \in GraphNodeLists, es \in GraphEdgeLists(MaxEdges)}
    /\ dependencies_to_dependents_map = EmptyMap
    /\ in_degree_map = EmptyMap
    /\ queue = <<>>
    /\ sorted = <<>>
    /\ sort_result = NoResult
    /\ stablized_order = <<>>
    /\ answers = EmptyMap
    /\ widx = 0
    /\ prompted = <<>>
    /\ turns = <<>>
    /\ pc = "sort_build"
    /\ RenderIdle
    /\ CdIdle
    /\ TrxIdle

NextGraph ==
    \/ SortBuild
    \/ SortPop
    \/ SortReturn

\* sort_graph is a sequential function: the thread that runs it takes its next
\* step as long as it has one
SpecGraph == InitGraph /\ [][NextGraph]_vars /\ WF_vars(NextGraph)

(***************************************************************************)
(* check_dependency on its own                                             *)
(***************************************************************************)
MaxDepLen == 3

DepTokens == {"q", "r", Colon, "true", "false", "x"}

DepAnswerValues ==
    {AnswerString(Str("x")), AnswerString(Str("true")), AnswerString(<<"x", Colon, "x">>),
     AnswerBool(TRUE), AnswerBool(FALSE),
     AnswerArray(<<>>), AnswerArray(<<Str("x")>>), AnswerArray(<<Str("true"), Str("x")>>)}

DepAnswerMaps(keys) == UNION {[K -> DepAnswerValues] : K \in SUBSET keys}

InitDep ==
    /\ RenderIdle
    /\ GaStart(<<>>, "check_dependency")
    /\ cd_dep \in SeqsUpTo(DepTokens, MaxDepLen)
    /\ cd_answers \in DepAnswerMaps({Str("q"), Str("r")})
    /\ cd_result = [done |-> FALSE, value |-> FALSE]
    /\ TrxIdle

CheckDependency ==
    /\ ~cd_result.done
    /\ cd_result' = [done |-> TRUE, value |-> check_dependency(cd_dep, cd_answers)]
    /\ UNCHANGED <<cd_dep, cd_answers, gaVars, trxVars, renderVars>>

NextDep == CheckDependency

SpecDep == InitDep /\ [][NextDep]_vars

(***************************************************************************)
(* The transaction client: its disks and its specification                 *)
(***************************************************************************)
\* out/, out/a, out/d/ and out/d/b, each there or not
TrxDisks ==
    LET out == Cwd \o <<Str("out")>>
        a == out \o <<Str("a")>>
        d == out \o <<Str("d")>>
        b == d \o <<Str("b")>>
        with(base, loc, what) == [l \in (DOMAIN base) \cup {loc} |-> IF l = loc THEN what ELSE base[l]]
        d1 == with(EmptyDisk, out, Dir)
        d2 == with(d1, a, File(Str("x")))
        d3 == with(d1, d, Dir)
        d4 == with(d2, d, Dir)
        d5 == with(d3, b, File(Str("x")))
        d6 == with(d4, b, File(Str("x")))
    IN {EmptyDisk, d1, d2, d3, d4, d5, d6}

InitTrx ==
    /\ RenderIdle
    /\ GaStart(<<>>, "trx_new")
    /\ CdIdle
    /\ disk \in TrxDisks
    /\ disk0 = disk
    /\ trx = NoTransaction
    /\ recorded = <<>>
    /\ undone = <<>>
    /\ undo_failures = 0
    /\ result = "none"

NextTrx ==
    \/ TrxNew
    \/ TrxAddOperation
    \/ TrxCommit
    \/ TrxCancel
    \/ TrxLeaveScope
    \/ DropRollbackStep
    \/ DropFinish

SpecTrx == InitTrx /\ [][NextTrx]_vars

(***************************************************************************)
(* lib.rs, mod transactions: the untyped Transaction of copy_template      *)
(***************************************************************************)
\* lib.rs 185-192: one popped operation
LibUndoOperation(operation, d, io_error) ==
    CASE operation.kind = "RemoveDir" -> remove_file(d, operation.path, io_error)
      [] operation.kind = "RemoveFile" -> remove_dir_all(d, operation.path, io_error)

\* lib.rs 169-173: Transaction::new
LibNew ==
    /\ pc = "lib_new"
    /\ trx' = [state |-> "Untyped", rollback_operations |-> <<>>]
    /\ pc' = "lib_active"
    /\ UNCHANGED <<disk, disk0, recorded, undone, undo_failures, result>>
    /\ UNCHANGED <<gaVars_but_pc, cdVars, renderVars>>

\* lib.rs 175-177: add_operation
LibAddOperation ==
    /\ pc = "lib_active"
    /\ Len(recorded) < MaxOps
    /\ \E operation \in TrxOperations(TrxPaths) :
          /\ trx' = [trx EXCEPT !.rollback_operations = Append(@, operation)]
          /\ recorded' = Append(recorded, operation)
    /\ UNCHANGED <<disk, disk0, undone, undo_failures, result, pc>>
    /\ UNCHANGED <<gaVars_but_pc, cdVars, renderVars>>

\* lib.rs 179-181: commit(&mut self) clears the log; the value stays in use
LibCommit ==
    /\ pc = "lib_active"
    /\ trx.rollback_operations # <<>>
    /\ trx' = [trx EXCEPT !.rollback_operations = <<>>]
    /\ result' = "Committed"
    /\ UNCHANGED <<disk, disk0, recorded, undone, undo_failures, pc>>
    /\ UNCHANGED <<gaVars_but_pc, cdVars, renderVars>>

\* the value goes out of scope: Drop::drop begins
LibLeaveScope ==
    /\ pc = "lib_active"
    /\ pc' = "lib_drop"
    /\ UNCHANGED <<trxVars, gaVars_but_pc, cdVars, renderVars>>

\* lib.rs 183-194: one iteration of the while loop of rollback, called by
\* Drop::drop for a log that is not empty; the error of a failed removal is
\* dropped (let _ =)
LibRollbackStep ==
    /\ pc = "lib_drop"
    /\ trx.rollback_operations # <<>>
    /\ LET n == Len(trx.rollback_operations)
           operation == trx.rollback_operations[n]
       IN /\ trx' = [trx EXCEPT !.rollback_operations = SubSeq(@, 1, n - 1)]
          /\ undone' = Append(undone, operation)
          /\ \E io_error \in {FALSE} \cup {b \in {TRUE} : undo_failures < MaxUndoFailures} :
                /\ disk' = LibUndoOperation(operation, disk, io_error).disk
                /\ undo_failures' = IF io_error THEN undo_failures + 1 ELSE undo_failures
    /\ UNCHANGED <<disk0, recorded, result, pc>>
    /\ UNCHANGED <<gaVars_but_pc, cdVars, renderVars>>

\* lib.rs 197-205: the end of Drop::drop, rollback has emptied the log or
\* commit clears an empty one
LibDropFinish ==
    /\ pc = "lib_drop"
    /\ trx.rollback_operations = <<>>
    /\ pc' = "done"
    /\ UNCHANGED <<trxVars, gaVars_but_pc, cdVars, renderVars>>

InitLib ==
    /\ RenderIdle
    /\ GaStart(<<>>, "lib_new")
    /\ CdIdle
    /\ disk \in TrxDisks
    /\ disk0 = disk
    /\ trx = NoTransaction
    /\ recorded = <<>>
    /\ undone = <<>>
    /\ undo_failures = 0
    /\ result = "none"

NextLib ==
    \/ LibNew
    \/ LibAddOperation
    \/ LibCommit
    \/ LibLeaveScope
    \/ LibRollbackStep
    \/ LibDropFinish

SpecLib == InitLib /\ [][NextLib]_vars

(***************************************************************************)
(* try_render: its blueprints, destinations, disks and specification       *)
(***************************************************************************)
MaxEntries == 3

FlagKey == Str("flag")
NameKey == Str("name")

\* the questions of the blueprint: none, a Confirm, a Confirm and a Text that
\* depends on it, or the two depending on each other
RenderFiles ==
    LET flag == [key |-> FlagKey, type |-> "Confirm", choices |-> NoChoices, dep |-> NoDependency]
        name == [key |-> NameKey, type |-> "Text", choices |-> NoChoices,
                 dep |-> Condition(<<"flag", Colon, "true">>)]
        flag_after_name == [flag EXCEPT !.dep = Condition(<<"name", Colon, "x">>)]
    IN {<<>>, <<flag>>, <<flag, name>>, <<flag_after_name, name>>}

\* names of directories and of files in a blueprint
\* the second directory renders to "opt " with a name, to " " with the flag alone
\* and to "" with neither
SourceDirNames == {Str("src"), <<"{%if name%}", "opt", EndIf, "{%if flag%}", " ", EndIf>>}
SourceFileNames == {Str("f"), <<"f", Dot, "tera">>, <<"{{name}}">>, <<"blueprint", Dot, "toml">>}
SourceContent == <<"v", "{{flag}}">>

SourceDir(relative) ==
    [relative |-> relative, file_name |-> relative[Len(relative)], is_dir |-> TRUE,
     content |-> <<>>]
SourceFile(relative) ==
    [relative |-> relative, file_name |-> relative[Len(relative)], is_dir |-> FALSE,
     content |-> SourceContent]
SourceRoot ==
    [relative |-> <<>>, file_name |-> Str("blueprint"), is_dir |-> TRUE, content |-> <<>>]

\* the entries below the root: directories and files at the top, files in the
\* directories
SourceEntries ==
    {SourceDir(<<d>>) : d \in SourceDirNames}
        \cup {SourceFile(<<f>>) : f \in SourceFileNames}
        \cup {SourceFile(<<d, f>>) : d \in SourceDirNames, f \in SourceFileNames}

\* WalkDir yields the root, then every entry once, a directory before what is
\* in it and the content of a directory in one run
Walks(n) ==
    {<<SourceRoot>> \o w : w \in
        {w \in [1..n -> SourceEntries] :
            /\ \A i, j \in 1..n : i # j => w[i].relative # w[j].relative
            /\ \A i \in 1..n :
                  Len(w[i].relative) = 2 =>
                      /\ i > 1
                      /\ \/ w[i - 1].relative = Parent(w[i].relative)
                         \/ Parent(w[i - 1].relative) = Parent(w[i].relative)}}

RenderDestinations == {<<Str("out")>>, <<Str("p"), Str("out")>>}

\* the disk with the directories of loc and all above it
DiskWithDir(loc) == WithDirs(EmptyDisk, loc, Len(loc))

\* nothing there; the parent of the destination there; the destination there
\* with a file in it
RenderDisks(dest) ==
    LET root == Resolve(dest)
        there == DiskWithDir(root)
        keep == Append(root, Str("keep"))
    IN {EmptyDisk, DiskWithDir(Parent(root)),
        [l \in (DOMAIN there) \cup {keep} |-> IF l = keep THEN File(Str("x")) ELSE there[l]]}

InitRender ==
    /\ \E f \in RenderFiles : GaStart(f, "try_render")
    /\ CdIdle
    /\ destination \in RenderDestinations
    /\ \E n \in 0..MaxEntries : blueprint \in Walks(n)
    /\ vfs = <<>>
    /\ aidx = 0
    /\ confirmed = "none"
    /\ disk \in RenderDisks(destination)
    /\ disk0 = disk
    /\ trx = NoTransaction
    /\ recorded = <<>>
    /\ undone = <<>>
    /\ undo_failures = 0
    /\ result = "none"

NextRender ==
    \/ TryRenderLookup
    \/ GetAnswersBuildGraph
    \/ SortBuild
    \/ SortPop
    \/ SortReturn
    \/ GetAnswersSortFailed
    \/ GetAnswersStabilize
    \/ WalkSkip
    \/ WalkPromptOk
    \/ WalkPromptErr
    \/ GetAnswersReturn
    \/ TryRenderAnswersFailed
    \/ TryRenderTera
    \/ TryRenderBuildVfs
    \/ TryRenderNewTransaction
    \/ TryRenderApplyChanges
    \/ ApplyVfsDirectory
    \/ ApplyVfsFilesStart
    \/ ApplyVfsFileParent
    \/ ApplyVfsFileWrite
    \/ ApplyVfsReturn
    \/ TrxCommit
    \/ TrxCancel
    \/ DropRollbackStep
    \/ DropFinish

SpecRender == InitRender /\ [][NextRender]_vars

(***************************************************************************)
(* try_render from build_vfs on, the Text question `name` answered with a  *)
(* text that is a path of its own                                          *)
(***************************************************************************)
\* what the user can type at the Text prompt: x, "..", /e, a/b, ../e
PathReplies ==
    {Str("x"), ParentDir, <<Slash, "e">>, <<"a", Slash, "b">>, <<"..", Slash, "e">>}

\* the blueprint walks with one or two entries below the root
PathWalks == Walks(1) \cup Walks(2)

\* get_answers has returned the answer to the one question, Tera::new succeeded
InitPath ==
    /\ file = <<[key |-> NameKey, type |-> "Text", choices |-> NoChoices, dep |-> NoDependency]>>
    /\ graph = [nodes |-> <<NameKey>>, edges |-> <<>>]
    /\ dependencies_to_dependents_map = EmptyMap
    /\ in_degree_map = EmptyMap
    /\ queue = <<>>
    /\ sorted = <<NameKey>>
    /\ sort_result = Ok(<<NameKey>>)
    /\ stablized_order = <<NameKey>>
    /\ \E reply \in PathReplies : answers = MapPut(EmptyMap, NameKey, AnswerString(reply))
    /\ widx = 2
    /\ prompted = <<NameKey>>
    /\ turns = <<Turn(file, NameKey, EmptyMap)>>
    /\ pc = "build_vfs"
    /\ CdIdle
    /\ destination \in RenderDestinations
    /\ blueprint \in PathWalks
    /\ vfs = <<>>
    /\ aidx = 0
    /\ confirmed = "none"
    /\ disk \in RenderDisks(destination)
    /\ disk0 = disk
    /\ trx = NoTransaction
    /\ recorded = <<>>
    /\ undone = <<>>
    /\ undo_failures = 0
    /\ result = "none"

NextPath ==
    \/ TryRenderBuildVfs
    \/ TryRenderNewTransaction
    \/ TryRenderApplyChanges
    \/ ApplyVfsDirectory
    \/ ApplyVfsFilesStart
    \/ ApplyVfsFileParent
    \/ ApplyVfsFileWrite
    \/ ApplyVfsReturn
    \/ TrxCommit
    \/ TrxCancel
    \/ DropRollbackStep
    \/ DropFinish

SpecPath == InitPath /\ [][NextPath]_vars

(***************************************************************************)
(* get_answers with its walk over the questions                            *)
(***************************************************************************)
MaxQuestions == 3

\* the offered choices of a Select or MultiSelect question
OfferedChoices == <<Str("x"), Str("true")>>

\* type and choices of a question; choices are optional in the file for every type
QuestionKinds ==
    {[type |-> t, choices |-> NoChoices] :
        t \in {"Text", "Paragraph", "Confirm", "Select", "MultiSelect"}}
        \cup {[type |-> t, choices |-> SomeChoices(OfferedChoices)] : t \in {"Select", "MultiSelect"}}

\* the predicates "k:x" and "k:true" on the question with key k
PredicatesOn(k) == {<<k[1], Colon, "x">>, <<k[1], Colon, "true">>}

\* what question i of n can depend on: nothing; the first question on the last
\* one; a later question on the one before it; the last question on an all or
\* any list over the first question and the one before it
DependenciesAt(i, n) ==
    {NoDependency}
        \cup (IF i = 1 /\ n >= 2 THEN {Condition(<<QuestionKeys[n][1], Colon, "x">>)} ELSE {})
        \cup (IF i >= 2 THEN {Condition(p) : p \in PredicatesOn(QuestionKeys[i - 1])} ELSE {})
        \cup (IF i = n /\ n >= 2
              THEN {And(<<p, q>>) : p \in PredicatesOn(QuestionKeys[1]),
                                   q \in PredicatesOn(QuestionKeys[n - 1])}
                   \cup {Or(<<p, q>>) : p \in PredicatesOn(QuestionKeys[1]),
                                       q \in PredicatesOn(QuestionKeys[n - 1])}
              ELSE {})

\* the first two questions are of any kind, the others are Text
QuestionsAt(i, n) ==
    {[key |-> QuestionKeys[i], type |-> k.type, choices |-> k.choices, dep |-> d] :
        k \in IF i <= 2 THEN QuestionKinds ELSE {[type |-> "Text", choices |-> NoChoices]},
        d \in DependenciesAt(i, n)}

RECURSIVE AnswerFilesFrom(_, _)
AnswerFilesFrom(i, n) ==
    IF i > n THEN {<<>>}
    ELSE {<<q>> \o rest : q \in QuestionsAt(i, n), rest \in AnswerFilesFrom(i + 1, n)}

AnswerFiles(n) == AnswerFilesFrom(1, n)

InitAnswers ==
    /\ \E n \in 0..MaxQuestions : \E f \in AnswerFiles(n) : GaStart(f, "get_answers")
    /\ CdIdle
    /\ TrxIdle
    /\ RenderIdle

NextAnswers ==
    \/ GetAnswersBuildGraph
    \/ SortBuild
    \/ SortPop
    \/ SortReturn
    \/ GetAnswersSortFailed
    \/ GetAnswersStabilize
    \/ WalkSkip
    \/ WalkPromptOk
    \/ WalkPromptErr
    \/ GetAnswersReturn

SpecAnswers == InitAnswers /\ [][NextAnswers]_vars

(***************************************************************************)
(* get_answers on files with dependency strings that have no ':'           *)
(***************************************************************************)
\* dependency strings without ':': "a", "ax" and the empty string
ColonlessStrings == {<<"a">>, <<"a", "x">>, <<>>}

\* two questions: the first of any kind, alone or depending on the second;
\* the second with a Condition, an all list or an any list that holds a string
\* without ':', alone or next to a predicate on the first
ColonFiles ==
    LET first == {[key |-> QuestionKeys[1], type |-> k.type, choices |-> k.choices, dep |-> d] :
                     k \in QuestionKinds,
                     d \in {NoDependency, Condition(<<QuestionKeys[2][1], Colon, "x">>)}}
        lists == {<<s>> : s \in ColonlessStrings}
                    \cup {<<s, p>> : s \in ColonlessStrings, p \in PredicatesOn(QuestionKeys[1])}
                    \cup {<<p, s>> : s \in ColonlessStrings, p \in PredicatesOn(QuestionKeys[1])}
        deps == {Condition(s) : s \in ColonlessStrings}
                    \cup {And(l) : l \in lists} \cup {Or(l) : l \in lists}
        second == {[key |-> QuestionKeys[2], type |-> "Text", choices |-> NoChoices, dep |-> d] :
                      d \in deps}
    IN {<<q1, q2>> : q1 \in first, q2 \in second}

InitColon ==
    /\ \E f \in ColonFiles : GaStart(f, "get_answers")
    /\ CdIdle
    /\ TrxIdle
    /\ RenderIdle

SpecColon == InitColon /\ [][NextAnswers]_vars

(***************************************************************************)
(* Graph vocabulary of the properties                                      *)
(***************************************************************************)
EdgeSet(g) == Range(g.edges)

Compose(R) == R \cup {<<x[1][1], x[2][2]>> : x \in {y \in R \X R : y[1][2] = y[2][1]}}

RECURSIVE Closure(_)
Closure(R) == IF Compose(R) = R THEN R ELSE Closure(Compose(R))

HasCycle(g) == \E e \in Closure(EdgeSet(g)) : e[1] = e[2]

\* position of the first occurrence of x in s, 0 when absent
Position(s, x) == IF Contains(s, x) THEN IndexOf(s, x) ELSE 0

Occurrences(s, x) == Cardinality({i \in 1..Len(s) : s[i] = x})

\* every edge (a, b) has a before b
ValidTopologicalOrder(g, order) ==
    \A e \in EdgeSet(g) :
        /\ Position(order, e[1]) > 0
        /\ Position(order, e[2]) > 0
        /\ Position(order, e[1]) < Position(order, e[2])

NoIncomingEdge(g, n) == \A e \in EdgeSet(g) : e[2] # n

(***************************************************************************)
(* The sorter and the stabilizer                                           *)
(***************************************************************************)

\* C5: for every acyclic question graph sort_graph succeeds, and the order
\* returned by stablize_topological_order has a before b for every edge (a, b).
C5_AcyclicSortsToTopologicalOrder ==
    /\ (pc = "sorted" /\ ~HasCycle(graph)) => sort_result.ok
    /\ (pc = "walk" /\ widx = 1) => ValidTopologicalOrder(graph, stablized_order)

\* C6: in the stabilized order the nodes without incoming edge come first, in
\* the order of graph.nodes, and every node with an incoming edge comes after.
C6_IndependentFirstInDeclarationOrder ==
    (pc = "walk" /\ widx = 1) =>
        LET zero == {n \in Range(graph.nodes) : NoIncomingEdge(graph, n)}
            k == Cardinality(zero)
        IN /\ Len(stablized_order) >= k
           /\ SubSeq(stablized_order, 1, k) = SelectSeq(graph.nodes, LAMBDA n : n \in zero)
           /\ \A i \in (k + 1)..Len(stablized_order) : stablized_order[i] \notin zero

\* C6 witness: a stabilized order with independent and dependent nodes that
\* differs from the order the sorter returned
C6_Witness ==
    /\ pc = "walk"
    /\ widx = 1
    /\ stablized_order # sort_result.value
    /\ \E n \in Range(graph.nodes) : NoIncomingEdge(graph, n)
    /\ \E n \in Range(graph.nodes) : ~NoIncomingEdge(graph, n)

\* C7: a graph with a directed cycle (a self-edge included) makes sort_graph
\* return CycleDetected carrying the whole edge list of the input graph.
C7_CycleDetectedCarriesAllEdges ==
    (pc = "sorted" /\ HasCycle(graph)) =>
        /\ ~sort_result.ok
        /\ sort_result.value = adjacency_list_from_file(file)

\* C7 witness: a cycle is reported for a graph that also has an edge off the
\* cycle, after part of the graph was sorted
C7_Witness ==
    /\ pc = "sorted"
    /\ HasCycle(graph)
    /\ ~sort_result.ok
    /\ sorted # <<>>
    /\ \E e \in EdgeSet(graph) : e[2] \in Range(sorted)
    /\ \E e \in EdgeSet(graph) : e[1] = e[2]

RECURSIVE SortLoop(_, _, _, _)
SortLoop(dm, idm, q, srt) ==
    IF q = <<>> THEN SortReturnValue(idm, srt, <<>>)
    ELSE LET r == PopStep(dm, idm, q, srt) IN SortLoop(dm, r.idm, r.q, r.sorted)

\* the order of the run whose in_degree_map iterates in declaration order
OrderOfDeclarationSeededRun(g) ==
    LET m == BuildMaps(g.edges, EmptyMap, InitInDegree(g.nodes, EmptyMap))
        seed == SelectSeq(g.nodes, LAMBDA n : n \in ZeroKeys(m.idm))
    IN stablize_topological_order(g, SortLoop(m.dm, m.idm, seed, <<>>).value)

\* C9: for a fixed node list and edge list every run of sort_graph followed by
\* stablize_topological_order yields one and the same sequence, whatever the
\* iteration order of the hash map: every run yields the order of the run that
\* iterates in declaration order.
C9_OrderIndependentOfHashOrder ==
    (pc = "walk" /\ widx = 1) => stablized_order = OrderOfDeclarationSeededRun(graph)

\* some dependency string of the file names, before its ':', no question of the file
HasUnknownReference(f) ==
    \E i \in 1..Len(f) : \E j \in 1..Len(f[i].dep.list) :
        /\ split_once(f[i].dep.list[j]).found
        /\ ~HasQuestion(f, split_once(f[i].dep.list[j]).head)

\* C8: a question whose dependency references an identifier that is no question
\* of the blueprint causes no error: building and sorting the graph succeed
\* (unless the questions depend on each other in a cycle) and get_answers goes
\* on to walk the questions.
C8_UnknownReferenceIsNoError ==
    (HasUnknownReference(file) /\ ~HasCycle(graph)) =>
        /\ pc = "sorted" => sort_result.ok
        /\ pc # "ga_err_sort"

(***************************************************************************)
(* check_dependency                                                        *)
(***************************************************************************)
\* v read as a boolean literal equals b
ParsesTo(v, b) == (v = <<"true">> /\ b) \/ (v = <<"false">> /\ ~b)

MatchesByKind(answer, v) ==
    \/ answer.kind = "String" /\ answer.s = v
    \/ answer.kind = "Array" /\ \E i \in 1..Len(answer.arr) : answer.arr[i] = v
    \/ answer.kind = "Bool" /\ ParsesTo(v, answer.b)

\* C10: check_dependency on "q:v" is true iff an answer for q exists and matches
\* v by kind (String equals v, Array contains v, Bool equals v parsed as a
\* boolean); with no answer for q or an unparsable boolean v it is false, and a
\* text without ':' gives false as well.
C10_CheckDependencyMatchesByKind ==
    cd_result.done =>
        /\ (~Contains(cd_dep, Colon)) => cd_result.value = FALSE
        /\ \A i \in 1..Len(cd_dep) :
              (cd_dep[i] = Colon /\ \A j \in 1..(i - 1) : cd_dep[j] # Colon) =>
                  LET q == SubSeq(cd_dep, 1, i - 1)
                      v == SubSeq(cd_dep, i + 1, Len(cd_dep))
                  IN cd_result.value = (q \in DOMAIN cd_answers /\ MatchesByKind(cd_answers[q], v))

\* C10 witness: a Bool answer compared with a value that is no boolean literal
C10_Witness ==
    /\ cd_result.done
    /\ cd_result.value = FALSE
    /\ Len(cd_dep) = 3
    /\ cd_dep[2] = Colon
    /\ <<cd_dep[1]>> \in DOMAIN cd_answers
    /\ cd_answers[<<cd_dep[1]>>].kind = "Bool"
    /\ cd_dep[3] \notin {"true", "false", Colon}

(***************************************************************************)
(* The transaction engine                                                  *)
(***************************************************************************)
\* the recorded operation would remove something that is on the disk
WouldRemove(operation, d) == UndoOperation(operation, d, FALSE).ok

\* C2: after commit() on an Active transaction, whatever was recorded on it, the
\* undo log is empty, and neither commit nor the drop of the Committed value
\* executes an undo operation or changes the filesystem.
C2_CommitClearsLogAndDropDoesNothing ==
    trx.state = "Committed" =>
        /\ trx.rollback_operations = <<>>
        /\ undone = <<>>
        /\ disk = disk0

\* C2 witness: a committed transaction was dropped after two or more operations
\* had been recorded, one of which would have removed something
C2_Witness ==
    /\ pc = "done"
    /\ trx.state = "Committed"
    /\ Len(recorded) >= 2
    /\ \E i \in 1..Len(recorded) : WouldRemove(recorded[i], disk)

\* C3: a transaction destroyed while Active or after cancel() has executed every
\* undo operation that was recorded on it, each as often as it was recorded.
C3_UncommittedDropExecutesEveryUndo ==
    (pc = "done" /\ trx.state \in {"Active", "Canceled"}) =>
        /\ Len(undone) = Len(recorded)
        /\ \A i \in 1..Len(recorded) :
              Occurrences(undone, recorded[i]) = Occurrences(recorded, recorded[i])

\* C3 witness: a canceled transaction with two or more operations was dropped
\* and the rollback changed the disk
C3_Witness ==
    /\ pc = "done"
    /\ trx.state = "Canceled"
    /\ Len(recorded) >= 2
    /\ disk # disk0

(***************************************************************************)
(* try_render and the filesystem                                           *)
(***************************************************************************)
\* where the entries of the staged VFS go on the disk
TargetLocations == {Resolve(FinalPath(destination, vfs[i])) : i \in 1..Len(vfs)}

\* no target path of the staged VFS was there before the run
TargetsAbsent == \A loc \in TargetLocations : loc \notin DOMAIN disk0

\* try_render has returned an error out of apply_vfs
ApplyFailed == pc = "done" /\ result = "Err" /\ confirmed = "yes"

\* C1: for every staged VFS whose target paths did not exist before the run and
\* every point at which a directory creation or a file write fails in apply_vfs,
\* once try_render has returned the error the rollback has run and the disk
\* holds exactly the files and directories it held before apply began, provided
\* no undo step failed on an I/O error.
C1_FailedApplyLeavesDiskAsBefore ==
    (ApplyFailed /\ TargetsAbsent /\ undo_failures = 0) =>
        /\ trx.rollback_operations = <<>>
        /\ Len(undone) = Len(recorded)
        /\ disk = disk0

\* C4: try_render creates no file and no directory unless the confirmation
\* prompt returned true: as long as the user has not confirmed, and for good
\* once the user declined or the prompt failed, the disk is as the run found it
\* and nothing was recorded on the undo log or undone.
C4_NothingCreatedUnlessConfirmed ==
    confirmed # "yes" =>
        /\ disk = disk0
        /\ recorded = <<>>
        /\ undone = <<>>
        /\ trx.rollback_operations = <<>>

\* C4 witness: the user declined a VFS that stages a directory and a file, and
\* the Canceled transaction has been dropped
C4_Witness ==
    /\ pc = "done"
    /\ confirmed = "no"
    /\ result = "Canceled"
    /\ trx.state = "Canceled"
    /\ Len(Directories(vfs)) >= 2
    /\ Files(vfs) # <<>>

(***************************************************************************)
(* The walk of get_answers over the questions                              *)
(***************************************************************************)
\* the predicate "q:v" is true against the answers: q is answered and the
\* answer matches v by kind
PredicateHolds(predicate, ans) ==
    /\ split_once(predicate).found
    /\ split_once(predicate).head \in DOMAIN ans
    /\ MatchesByKind(ans[split_once(predicate).head], split_once(predicate).tail)

\* the visibility rule: no dependency, a predicate, all of a list, any of a list
VisibleByRule(question, ans) ==
    CASE question.dep.tag = "None" -> TRUE
      [] question.dep.tag = "Condition" -> PredicateHolds(question.dep.list[1], ans)
      [] question.dep.tag = "And" ->
            \A k \in 1..Len(question.dep.list) : PredicateHolds(question.dep.list[k], ans)
      [] question.dep.tag = "Or" ->
            \E k \in 1..Len(question.dep.list) : PredicateHolds(question.dep.list[k], ans)

\* the turns at which the rule makes the question visible
VisibleTurns ==
    {i \in 1..Len(turns) :
        VisibleByRule(GetQuestion(file, turns[i].question), turns[i].answers)}

\* C11: at its turn a question with an And dependency is visible iff every
\* listed predicate is true against the answers collected so far, one with an Or
\* dependency iff at least one is, and one without dependency always.
C11_VisibilityFollowsDependency ==
    \A i \in 1..Len(turns) : turns[i].should_prompt = (i \in VisibleTurns)

\* C11 witness: a collection ended in which a question with an all list was
\* skipped although one of its two predicates was true
C11_Witness ==
    /\ pc = "ga_ok"
    /\ \E i \in 1..Len(turns) :
          LET question == GetQuestion(file, turns[i].question)
          IN /\ question.dep.tag = "And"
             /\ ~turns[i].should_prompt
             /\ \E k \in 1..Len(question.dep.list) :
                   PredicateHolds(question.dep.list[k], turns[i].answers)

\* C12: after a successful collection every question that was visible at its
\* turn, whatever its type, was passed to the prompt collaborator and has an
\* entry under its identifier in the answer map.
C12_VisibleQuestionsAreAnswered ==
    pc = "ga_ok" =>
        \A i \in VisibleTurns :
            /\ turns[i].question \in Range(prompted)
            /\ turns[i].question \in DOMAIN answers

\* C13: a question that is not visible at its turn is never prompted and never
\* gets an entry in the answer map, so that every predicate on it is false from
\* then on.
C13_InvisibleQuestionsAreSkipped ==
    \A i \in (1..Len(turns)) \ VisibleTurns :
        /\ turns[i].question \notin Range(prompted)
        /\ turns[i].question \notin DOMAIN answers
        /\ \A predicate \in PredicatesOn(turns[i].question) \cup
                            {<<turns[i].question[1], Colon, "false">>} :
              ~check_dependency(predicate, answers)

\* C13 witness: a collection ended in which a question was skipped and a later
\* question that depends on the skipped one had its turn
C13_Witness ==
    /\ pc = "ga_ok"
    /\ \E i \in (1..Len(turns)) \ VisibleTurns : \E j \in (i + 1)..Len(turns) :
          \E k \in 1..Len(GetQuestion(file, turns[j].question).dep.list) :
              split_once(GetQuestion(file, turns[j].question).dep.list[k]).head
                  = turns[i].question

\* the prompts that failed: the question was handed to the prompt collaborator
\* and no answer was stored
FailedPrompts == {i \in 1..Len(prompted) : prompted[i] \notin DOMAIN answers}

\* C14: when the prompt collaborator fails on a question, get_answers returns
\* the error at once: that question is the last one prompted and the last one
\* that had its turn, no answer map reaches try_render, try_render returns the
\* error, and nothing on the filesystem is changed in the run.
C14_PromptFailureAbortsRun ==
    \A i \in FailedPrompts :
        /\ i = Len(prompted)
        /\ turns[Len(turns)].question = prompted[i]
        /\ Len(turns) = widx
        /\ pc \in {"ga_err_prompt", "done"}
        /\ pc = "done" => result = "Err"
        /\ vfs = <<>>
        /\ trx = NoTransaction
        /\ recorded = <<>>
        /\ disk = disk0

\* C14 witness: try_render returned after the prompt failed on the first of two
\* questions, for a blueprint that holds files
C14_Witness ==
    /\ pc = "done"
    /\ FailedPrompts # {}
    /\ Len(file) = 2
    /\ Len(prompted) = 1
    /\ Len(blueprint) >= 3

\* C15: when the question graph contains a cycle get_answers fails before any
\* question is prompted: no question has its turn and no prompt is issued.
C15_CycleFailsBeforeAnyPrompt ==
    HasCycle(graph) =>
        /\ prompted = <<>>
        /\ turns = <<>>
        /\ pc \in {"sort_build", "sort_loop", "sorted", "ga_err_sort"}

\* C15 witness: get_answers failed on a cycle of two questions after the sorter
\* had sorted a third question that is on no cycle
C15_Witness ==
    /\ pc = "ga_err_sort"
    /\ HasCycle(graph)
    /\ Len(file) = 3
    /\ sorted # <<>>

(***************************************************************************)
(* build_vfs                                                               *)
(***************************************************************************)
\* try_render holds the VFS that build_vfs returned (it always stages the root)
Built == vfs # <<>>

\* empty, or nothing but whitespace
Blank(text) == \A k \in 1..Len(text) : text[k] \in Whitespace

\* the text without the whitespace around it
Unpadded(text) ==
    LET solid == {k \in 1..Len(text) : text[k] \notin Whitespace}
    IN IF solid = {} THEN <<>>
       ELSE SubSeq(text, CHOOSE k \in solid : \A m \in solid : k <= m,
                   CHOOSE k \in solid : \A m \in solid : m <= k)

\* some component of the relative path of the entry renders to a blank text
HasBlankComponent(entry, ans) ==
    \E k \in 1..Len(entry.relative) : Blank(render_str(entry.relative[k], ans).out)

ReservedName == <<"blueprint", ".", "toml">>

\* the entries of the walk that are staged: not the reserved file, no blank
\* component
Kept(walk, ans) ==
    SelectSeq(walk, LAMBDA e : e.file_name # ReservedName /\ ~HasBlankComponent(e, ans))

\* the rendered relative path of an entry, component by component
RenderedPath(entry, ans) ==
    [k \in 1..Len(entry.relative) |-> Unpadded(render_str(entry.relative[k], ans).out)]

\* C16: a blueprint entry of which some path component renders to an empty or
\* whitespace-only text has no entry in the built VFS, and nothing beneath it
\* has one: entry by entry, the VFS is the walk without the reserved file and
\* without the entries that have a blank component, directories staying
\* directories and files files.  Stated where build_vfs has just returned: the
\* VFS, the walk and the answers are the same in every later state.
C16_BlankComponentDropsEntry ==
    (Built /\ pc = "preview") =>
        /\ Len(vfs) = Len(Kept(blueprint, answers))
        /\ \A j \in 1..Len(vfs) :
              /\ vfs[j].is_file = ~Kept(blueprint, answers)[j].is_dir
              /\ Len(vfs[j].destination.path) = Len(Kept(blueprint, answers)[j].relative)

\* C16 witness: a VFS was built from a walk with a directory whose name renders
\* to whitespace only and a file in that directory, and with entries that stay
C16_Witness ==
    /\ Built
    /\ Len(vfs) >= 2
    /\ \E i \in 1..Len(blueprint) : \E j \in 1..Len(blueprint) :
          /\ blueprint[i].is_dir
          /\ HasBlankComponent(blueprint[i], answers)
          /\ render_str(blueprint[i].relative[1], answers).out # <<>>
          /\ ~blueprint[j].is_dir
          /\ Len(blueprint[j].relative) = 2
          /\ blueprint[j].relative[1] = blueprint[i].relative[1]

\* the name carries the marker extension
HasMarker(name) == Len(name) >= 3 /\ name[Len(name) - 1] = "." /\ name[Len(name)] = "tera"

\* C17: for every file entry, if the rendered final path component carries the
\* marker extension tera the destination is that name without the marker and
\* the content is the rendered source content; otherwise the destination name
\* is the rendered name and the content is the source content verbatim.  Stated
\* for the VFS that try_render is about to apply or to give up.
C17_MarkerStrippedAndRendered ==
    (Built /\ pc = "apply_changes" /\ Len(vfs) = Len(Kept(blueprint, answers))) =>
        \A j \in 1..Len(vfs) :
            LET source == Kept(blueprint, answers)[j]
                rendered == RenderedPath(source, answers)
                name == rendered[Len(rendered)]
            IN ~source.is_dir =>
                  IF HasMarker(name)
                  THEN /\ vfs[j].destination.path
                            = SubSeq(rendered, 1, Len(rendered) - 1)
                                \o <<SubSeq(name, 1, Len(name) - 2)>>
                       /\ vfs[j].content.some
                       /\ vfs[j].content.text = render_str(source.content, answers).out
                  ELSE /\ vfs[j].destination.path = rendered
                       /\ vfs[j].content.some
                       /\ vfs[j].content.text = source.content

\* C17 witness: a VFS with a template file whose content was rendered to
\* something else than its source, and a file copied as it is
C17_Witness ==
    /\ Built
    /\ \E j \in 1..Len(vfs) :
          /\ vfs[j].is_file
          /\ HasMarker(RenderedPath(Kept(blueprint, answers)[j], answers)[
                 Len(Kept(blueprint, answers)[j].relative)])
          /\ vfs[j].content.text # Kept(blueprint, answers)[j].content
    /\ \E j \in 1..Len(vfs) :
          /\ vfs[j].is_file
          /\ vfs[j].content.text = Kept(blueprint, answers)[j].content

\* the reserved question-definition files of the blueprint
ReservedEntries == {i \in 1..Len(blueprint) : blueprint[i].relative # <<>>
                        /\ blueprint[i].relative[Len(blueprint[i].relative)] = ReservedName}

\* C18: the reserved question-definition file blueprint.toml of the blueprint
\* never produces a VFS entry and is never written to the destination: no entry
\* of the VFS has the path the file would go to, and nothing appears there on
\* the disk.
C18_ReservedFileNeverStaged ==
    \A i \in ReservedEntries :
        /\ vfs # <<>> =>
              \A j \in 1..Len(vfs) :
                  vfs[j].destination.path # RenderedPath(blueprint[i], answers)
        /\ disk # disk0 =>
              LET loc == Resolve(Join(destination, RenderedPath(blueprint[i], answers)))
              IN loc \in DOMAIN disk => loc \in DOMAIN disk0

\* C18 witness: a run was committed for a blueprint with a reserved file at the
\* top, next to a file that was written
C18_Witness ==
    /\ pc = "done"
    /\ result = "Committed"
    /\ \E i \in ReservedEntries : Len(blueprint[i].relative) = 1
    /\ Files(vfs) # <<>>

(***************************************************************************)
(* The order of the phases of try_render                                   *)
(***************************************************************************)
\* C19: the first filesystem mutation happens only after build_vfs has returned
\* the complete VFS: as long as try_render holds no VFS, and for good when
\* answer collection, the set-up of the template engine or build_vfs failed,
\* the disk is as the run found it and no transaction was opened; when apply
\* is about to make its first mutation the VFS is the whole VFS of the blueprint.
C19_NoMutationBeforeVfsIsBuilt ==
    /\ ~Built =>
          /\ disk = disk0
          /\ trx = NoTransaction
          /\ recorded = <<>>
          /\ pc = "done" => result = "Err"
    /\ (pc = "apply_dirs" /\ aidx = 1 /\ recorded = <<>>) =>
          vfs = build_vfs(blueprint, make_tera_context(answers)).entries

\* C19 witness: try_render returned because build_vfs failed to render a
\* blueprint with files, after the answers had been collected
C19_Witness ==
    /\ pc = "done"
    /\ ~Built
    /\ sort_result.ok
    /\ widx > Len(stablized_order)
    /\ Len(blueprint) >= 3
    /\ ~build_vfs(blueprint, make_tera_context(answers)).ok

\* a file write was recorded
FileWritten == \E k \in 1..Len(recorded) : recorded[k].kind = "RemoveFile"

\* C20: during apply every directory entry of the VFS has been created on disk
\* before the first file entry is written, whatever the order of the entries in
\* the VFS: while the directories are being created no file has been written,
\* and from then on until apply_vfs returns every staged directory is there.
C20_DirectoriesBeforeFiles ==
    /\ pc = "apply_dirs" =>
          /\ ~FileWritten
          /\ \A loc \in DOMAIN disk : IsFile(disk, loc) => IsFile(disk0, loc)
    /\ pc \in {"apply_files", "apply_write", "commit"} =>
          \A k \in 1..Len(vfs) :
              ~vfs[k].is_file => IsDir(disk, Resolve(FinalPath(destination, vfs[k])))

\* C20 witness: a file has been written and another is about to be, for a VFS
\* that lists a file before a directory that was not on the disk
C20_Witness ==
    /\ pc = "apply_write"
    /\ FileWritten
    /\ \E i \in 1..Len(vfs) : \E j \in (i + 1)..Len(vfs) :
          /\ vfs[i].is_file
          /\ ~vfs[j].is_file
          /\ Resolve(FinalPath(destination, vfs[j])) \notin DOMAIN disk0

(***************************************************************************)
(* The rollback                                                            *)
(***************************************************************************)
\* the last n operations of the log s, the latest first
LatestFirst(s, n) == [i \in 1..n |-> s[Len(s) + 1 - i]]

\* C21: rollback executes the recorded undo operations in strict reverse order
\* of recording: at every point of a rollback what has been executed so far is
\* the tail of the recorded log read backwards, and what is still on the
\* transaction is the head of the log that is left.
C21_RollbackIsLastInFirstOut ==
    /\ Len(undone) <= Len(recorded)
    /\ undone = LatestFirst(recorded, Len(undone))
    /\ trx.state \in {"Active", "Canceled"} =>
          trx.rollback_operations = SubSeq(recorded, 1, Len(recorded) - Len(undone))

\* C21 witness: a rollback of three recorded operations has ended, the first
\* and the last of which differ
C21_Witness ==
    /\ pc = "done"
    /\ Len(undone) = 3
    /\ recorded[1] # recorded[3]
    /\ recorded[1] # recorded[2]

\* the rollback of an apply is running or has run
InRollbackOfApply == confirmed = "yes" /\ undone # <<>>

\* the location q is strictly below the location p
StrictlyUnder(q, p) == Len(q) > Len(p) /\ SubSeq(q, 1, Len(p)) = p

\* the transaction made what is at the location: it was not there before the run
MadeByTransaction(loc) == loc \notin DOMAIN disk0

\* C22: during the rollback of an apply, when the removal of a directory has
\* executed, no RemoveFile step of a file that the transaction created in that
\* directory is still to come, and no RemoveDir step of a deeper directory
\* that the transaction created is still to come.
C22_FilesBeforeParentsDeeperBeforeShallower ==
    InRollbackOfApply =>
        \A k \in 1..Len(undone) : \A i \in 1..Len(trx.rollback_operations) :
            LET executed == undone[k]
                pending == trx.rollback_operations[i]
                top == Resolve(executed.path)
                loc == Resolve(pending.path)
            IN (executed.kind = "RemoveDir" /\ MadeByTransaction(loc)) =>
                  /\ pending.kind = "RemoveFile" => Parent(loc) # top
                  /\ pending.kind = "RemoveDir" => ~StrictlyUnder(loc, top)

(***************************************************************************)
(* The states of a transaction                                             *)
(***************************************************************************)
\* the transaction has been finalized by commit or cancel
Finalized(t) == t.state \in {"Committed", "Canceled"}

\* C23: a transaction is finalized at most once and nothing is recorded on it
\* afterwards: a step changes the state only from no transaction to Active
\* (new), from Active to Committed (commit) or from Active to Canceled
\* (cancel); once it is Committed or Canceled the state stays, no operation is
\* recorded and the log only shrinks; a transaction that was never finalized
\* ends as the Active value that Drop rolled back.
C23_FinalizedOnceAndThenClosed ==
    [][/\ trx'.state # trx.state =>
              \/ trx.state = "None" /\ trx'.state = "Active"
              \/ trx.state = "Active" /\ Finalized(trx')
       /\ Finalized(trx) =>
              /\ trx'.state = trx.state
              /\ recorded' = recorded
              /\ Len(trx'.rollback_operations) <= Len(trx.rollback_operations)
              /\ trx'.rollback_operations
                    = SubSeq(trx.rollback_operations, 1, Len(trx'.rollback_operations))
       /\ (pc' = "done" /\ trx'.state = "Active") => trx'.rollback_operations = <<>>]_vars

\* C23 witness: a transaction with a full log was canceled and its Canceled
\* value has been dropped
C23_Witness ==
    /\ pc = "done"
    /\ trx.state = "Canceled"
    /\ Len(recorded) = MaxOps
    /\ Len(undone) = MaxOps

(***************************************************************************)
(* What try_render returns                                                 *)
(***************************************************************************)
\* the mutations apply_vfs makes for the staged VFS when none fails: one
\* directory creation per directory entry, and the creation of the parent and
\* the write per file entry
MutationsOfApply == Len(Directories(vfs)) + 2 * Len(Files(vfs))

\* every entry of the staged VFS is on the disk as what it was staged as
EveryEntryOnDisk ==
    \A k \in 1..Len(vfs) :
        LET loc == Resolve(FinalPath(destination, vfs[k]))
        IN IF vfs[k].is_file THEN IsFile(disk, loc) ELSE IsDir(disk, loc)

\* C24: a finished run of try_render returned Committed exactly when the user
\* confirmed and every directory creation and file write of apply succeeded,
\* Canceled exactly when the user declined, and an error in every other case.
C24_SuccessOnlyCommittedOrDeclined ==
    pc = "done" =>
        /\ result \in {"Committed", "Canceled", "Err"}
        /\ result = "Committed" <=>
              (confirmed = "yes" /\ Len(recorded) = MutationsOfApply)
        /\ result = "Committed" => EveryEntryOnDisk /\ trx.state = "Committed"
        /\ result = "Canceled" <=> confirmed = "no"
        /\ result = "Canceled" => trx.state = "Canceled"

\* C24 witness: a run that created a directory and wrote two files returned
\* Committed
C24_Witness ==
    /\ pc = "done"
    /\ result = "Committed"
    /\ Len(Directories(vfs)) >= 2
    /\ Len(Files(vfs)) >= 2
    /\ disk # disk0

(***************************************************************************)
(* All or nothing                                                          *)
(***************************************************************************)
\* the entry of the staged VFS is on the disk as it was staged: a directory as
\* a directory, a file as a file with the content staged for its path by the
\* last entry that goes there
StagedContent(k) == IF vfs[k].content.some THEN vfs[k].content.text ELSE <<>>

LastEntryAt(k) ==
    \A m \in (k + 1)..Len(vfs) :
        Resolve(FinalPath(destination, vfs[m])) # Resolve(FinalPath(destination, vfs[k]))

EntryOnDisk(k) ==
    LET loc == Resolve(FinalPath(destination, vfs[k]))
    IN IF vfs[k].is_file
       THEN IsFile(disk, loc) /\ (LastEntryAt(k) => disk[loc].content = StagedContent(k))
       ELSE IsDir(disk, loc)

\* the entry of the staged VFS is the work of the run: it is on the disk as
\* staged and was not there like that before
EntryCreated(k) ==
    LET loc == Resolve(FinalPath(destination, vfs[k]))
    IN EntryOnDisk(k) /\ (loc \notin DOMAIN disk0 \/ disk[loc] # disk0[loc])

InApply == pc \in {"apply_dirs", "apply_files", "apply_write"}

\* what the file entries before the n-th have put on the log: the removal of
\* the parent, then the removal of the file
RECURSIVE UndoOfFiles(_, _)
UndoOfFiles(files, n) ==
    IF n = 0 THEN <<>>
    ELSE UndoOfFiles(files, n - 1)
            \o <<RemoveDir(Parent(FinalPath(destination, files[n]))),
                 RemoveFile(FinalPath(destination, files[n]))>>

\* the mutations that have succeeded at this point of apply_vfs, as removals,
\* in the order performed
UndoOfSucceeded ==
    LET dirs == Directories(vfs)
        files == Files(vfs)
        of_dirs(n) == [k \in 1..n |-> RemoveDir(FinalPath(destination, dirs[k]))]
    IN CASE pc = "apply_dirs" -> of_dirs(aidx - 1)
         [] pc = "apply_files" -> of_dirs(Len(dirs)) \o UndoOfFiles(files, aidx - 1)
         [] pc = "apply_write" ->
               of_dirs(Len(dirs)) \o UndoOfFiles(files, aidx - 1)
                   \o <<RemoveDir(Parent(FinalPath(destination, files[aidx])))>>

\* what the operation removes is on the disk
Removable(operation, d) ==
    IF operation.kind = "RemoveDir" THEN IsDir(d, Resolve(operation.path))
    ELSE IsFile(d, Resolve(operation.path))

StagedAsDirectory(path) ==
    \E k \in 1..Len(vfs) :
        ~vfs[k].is_file /\ Resolve(FinalPath(destination, vfs[k])) = Resolve(path)

\* C27: in the file phase of apply, the step that turns to the parent of a file
\* creates it and records its RemoveDir only if the parent was not staged as a
\* directory entry; for a file whose parent was staged the step records no
\* undo operation and leaves the disk alone.
C27_ParentCreatedOnlyIfNotStaged ==
    [][(pc = "apply_files" /\ pc' = "apply_write") =>
          LET parent == Parent(FinalPath(destination, Files(vfs)[aidx]))
          IN IF StagedAsDirectory(parent)
             THEN recorded' = recorded /\ trx' = trx /\ disk' = disk
             ELSE recorded' = Append(recorded, RemoveDir(parent))]_vars

(***************************************************************************)
(* Failing undo steps                                                      *)
(***************************************************************************)
\* C28: a failing undo step is swallowed: a step of the rollback executes one
\* operation and changes neither what the run returns nor where it goes, and
\* once a transaction that was not committed has been dropped its log is empty
\* and as many operations have been executed as were recorded, whether steps
\* failed or not.
C28_FailedUndoIsSwallowed ==
    [][/\ undone' # undone =>
              /\ Len(undone') = Len(undone) + 1
              /\ result' = result
              /\ pc' = pc
       /\ (pc' = "done" /\ trx'.state \in {"Active", "Canceled"}) =>
              /\ trx'.rollback_operations = <<>>
              /\ Len(undone') = Len(recorded')]_vars

\* C28 witness: a rollback of three operations has ended in which the first
\* step failed on an I/O error, leaving what it was to remove, and a later
\* step removed something
C28_Witness ==
    /\ pc = "done"
    /\ undo_failures = 1
    /\ Len(undone) = 3
    /\ WouldRemove(undone[1], disk)
    /\ disk # disk0

(***************************************************************************)
(* What an undo operation removes                                          *)
(***************************************************************************)
\* the disk after is the disk before without the locations gone
Without(after, before, gone) ==
    /\ DOMAIN after = (DOMAIN before) \ gone
    /\ \A l \in DOMAIN after : after[l] = before[l]

\* C29: a rollback step that executes RemoveFile(p) on a file p removes p and
\* nothing else; a step that executes RemoveDir(p) on a directory p removes p
\* and everything under it and nothing else; a step that fails leaves the disk
\* as it is.
C29_RemoveFileOneRemoveDirAll ==
    [][undone' # undone =>
          LET operation == undone'[Len(undone')]
              loc == Resolve(operation.path)
          IN IF undo_failures' # undo_failures THEN disk' = disk
             ELSE IF operation.kind = "RemoveFile" /\ IsFile(disk, loc)
             THEN Without(disk', disk, {loc})
             ELSE IF operation.kind = "RemoveDir" /\ IsDir(disk, loc)
             THEN Without(disk', disk, {l \in DOMAIN disk : l = loc \/ StrictlyUnder(l, loc)})
             ELSE disk' = disk]_vars

\* C29 witness: a rollback has ended that removed a file by its RemoveFile,
\* the directory of the file staying, and a directory with something in it by
\* its RemoveDir
C29_Witness ==
    /\ pc = "done"
    /\ \E i \in 1..Len(undone) :
          LET loc == Resolve(undone[i].path)
          IN /\ undone[i].kind = "RemoveFile"
             /\ IsFile(disk0, loc)
             /\ loc \notin DOMAIN disk
             /\ Parent(loc) \in DOMAIN disk
    /\ \E j \in 1..Len(undone) :
          LET loc == Resolve(undone[j].path)
          IN /\ undone[j].kind = "RemoveDir"
             /\ IsDir(disk0, loc)
             /\ \E l \in DOMAIN disk0 : StrictlyUnder(l, loc)
             /\ loc \notin DOMAIN disk

(***************************************************************************)
(* The order of the prompts                                                *)
(***************************************************************************)
\* C30: the questions prompted in a run are a subsequence of the stabilized
\* order: every prompted question is in the order, a question prompted later
\* stands later in the order, and the order is walked once, the k-th turn
\* being that of the k-th question of the order.
C30_PromptsFollowStabilizedOrder ==
    /\ \A i \in 1..Len(prompted) : Position(stablized_order, prompted[i]) > 0
    /\ \A i \in 1..Len(prompted) : \A j \in (i + 1)..Len(prompted) :
          Position(stablized_order, prompted[i]) < Position(stablized_order, prompted[j])
    /\ Len(turns) <= Len(stablized_order)
    /\ \A k \in 1..Len(turns) : turns[k].question = stablized_order[k]

\* C30 witness: get_answers returned after prompting the first and the third
\* question of a stabilized order of three, the second being skipped
C30_Witness ==
    /\ pc = "ga_ok"
    /\ Len(stablized_order) = 3
    /\ Len(turns) = 3
    /\ prompted = <<stablized_order[1], stablized_order[3]>>

(***************************************************************************)
(* Duplicate edges                                                         *)
(***************************************************************************)
RECURSIVE WithoutCopies(_, _)
\* the edge list with every edge kept once, at its first place
WithoutCopies(edges, seen) ==
    IF edges = <<>> THEN <<>>
    ELSE IF Head(edges) \in seen THEN WithoutCopies(Tail(edges), seen)
    ELSE <<Head(edges)>> \o WithoutCopies(Tail(edges), seen \cup {Head(edges)})

\* some edge stands more than once in the edge list
HasCopies(g) == WithoutCopies(g.edges, {}) # g.edges

\* what sort_graph returns for the nodes and the edge list, seeded in the order
\* of the nodes
SortOf(nodes, edges) ==
    LET m == BuildMaps(edges, EmptyMap, InitInDegree(nodes, EmptyMap))
        seed == SelectSeq(nodes, LAMBDA n : n \in ZeroKeys(m.idm))
    IN SortLoop(m.dm, m.idm, seed, <<>>)

\* C31: copies of edges do not change what sort_graph makes of a graph: it
\* returns Ok exactly when it does for the graph with every edge kept once, and
\* the order it returns holds every node once and has a before b for every
\* edge (a, b).
C31_EdgeCopiesAreHarmless ==
    pc = "sorted" =>
        /\ sort_result.ok = SortOf(graph.nodes, WithoutCopies(graph.edges, {})).ok
        /\ sort_result.ok =>
              /\ Len(sort_result.value) = Len(graph.nodes)
              /\ \A n \in Range(graph.nodes) : Occurrences(sort_result.value, n) = 1
              /\ ValidTopologicalOrder(graph, sort_result.value)

\* C31 witness: sort_graph returned an order for a graph in which an edge
\* stands twice, next to another edge
C31_Witness ==
    /\ pc = "sorted"
    /\ sort_result.ok
    /\ HasCopies(graph)
    /\ Cardinality(EdgeSet(graph)) >= 2

(***************************************************************************)
(* The rollback of lib.rs                                                  *)
(***************************************************************************)
\* C32: in the transactions module of lib.rs, a rollback step that executes
\* RemoveFile(p) on a file p removes the single file p, and a step that
\* executes RemoveDir(p) on a directory p removes p and everything under it.
C32_LibRollbackRemovesWhatItNames ==
    [][(pc = "lib_drop" /\ undone' # undone /\ undo_failures' = undo_failures) =>
          LET operation == undone'[Len(undone')]
              loc == Resolve(operation.path)
          IN /\ (operation.kind = "RemoveFile" /\ IsFile(disk, loc))
                   => Without(disk', disk, {loc})
             /\ (operation.kind = "RemoveDir" /\ IsDir(disk, loc))
                   => Without(disk', disk, {l \in DOMAIN disk : l = loc \/ StrictlyUnder(l, loc)})]_vars

(***************************************************************************)
(* What a rollback leaves                                                  *)
(***************************************************************************)
\* C33: a rollback removes only what the transaction created: every directory
\* and every file that was on disk before apply began, the destination root
\* and what was in it included, is still on disk during and after the
\* rollback of the apply.
C33_RollbackKeepsWhatWasThere ==
    InRollbackOfApply => \A l \in DOMAIN disk0 : l \in DOMAIN disk

(***************************************************************************)
(* Destinations of the staged entries                                      *)
(***************************************************************************)
\* C35: any two distinct entries of the VFS that build_vfs returned have
\* distinct destination paths, and no path is recorded twice in the undo log
\* as RemoveFile.
C35_DestinationsAreDistinct ==
    /\ \A i, j \in 1..Len(vfs) :
          i # j => vfs[i].destination.path # vfs[j].destination.path
    /\ \A i, j \in 1..Len(recorded) :
          (i # j /\ recorded[i].kind = "RemoveFile") => recorded[i] # recorded[j]

(***************************************************************************)
(* Where apply writes                                                      *)
(***************************************************************************)
\* the location is the destination root, below it, or a directory above it
\* that create_dir_all makes on the way to it
AtDestination(loc) ==
    LET root == Resolve(destination)
    IN IsUnder(loc, root) \/ (Len(loc) < Len(root) /\ SubSeq(root, 1, Len(loc)) = loc)

\* C34: whatever text the answer renders into a path segment ("..", an
\* absolute path and a text with a separator included), every directory that
\* a step of apply creates and every file that it writes lies inside the
\* destination root.
C34_ApplyStaysInsideDestination ==
    [][\A l \in DOMAIN disk' :
          (l \notin DOMAIN disk \/ disk'[l] # disk[l]) => AtDestination(l)]_vars

(***************************************************************************)
(* Skipping along the dependencies                                         *)
(***************************************************************************)
\* the question that a dependency string names was prompted and answered
\* before the i-th iteration of the walk
AnsweredEarlier(dep, i) ==
    LET sp == split_once(dep)
    IN /\ sp.found
       /\ sp.head \in DOMAIN turns[i].answers
       /\ sp.head \in Range(prompted)
       /\ \E j \in 1..(i - 1) : turns[j].question = sp.head /\ turns[j].should_prompt

\* C36: a question with a Condition or an And dependency is prompted only if
\* every question that its dependency strings name was prompted and answered
\* earlier in the run, a question with an Or dependency only if one of them
\* was.
C36_SkippingPropagates ==
    \A i \in 1..Len(turns) :
        turns[i].should_prompt =>
            LET dep == GetQuestion(file, turns[i].question).dep
            IN CASE dep.tag \in {"Condition", "And"} ->
                       \A m \in 1..Len(dep.list) : AnsweredEarlier(dep.list[m], i)
                 [] dep.tag = "Or" ->
                       \E m \in 1..Len(dep.list) : AnsweredEarlier(dep.list[m], i)
                 [] OTHER -> TRUE

\* C36 witness: a walk over three questions has ended in which the second
\* question, with a Condition on the first, and the third, with an And list
\* over the first and the second, were both prompted
C36_Witness ==
    /\ pc = "ga_ok"
    /\ Len(turns) = 3
    /\ \A i \in 1..3 : turns[i].should_prompt
    /\ GetQuestion(file, turns[2].question).dep.tag = "Condition"
    /\ GetQuestion(file, turns[3].question).dep.tag = "And"
    /\ Len(prompted) = 3

(***************************************************************************)
(* When the undo operations run                                            *)
(***************************************************************************)
\* C37: the step of commit() or cancel() itself executes no undo operation
\* and leaves the disk as it is, the Canceled value it returns holding the
\* whole log; and when the drop of the Canceled value has ended, each recorded
\* undo operation has been executed exactly once.
C37_UndoRunsOnlyOnDropOfCanceled ==
    [][/\ (trx.state = "Active" /\ trx'.state \in {"Committed", "Canceled"}) =>
              /\ undone' = undone
              /\ disk' = disk
              /\ trx'.state = "Canceled" => trx'.rollback_operations = recorded
       /\ (trx.state = "Canceled" /\ pc # "done" /\ pc' = "done") =>
              /\ undone' = Reverse(recorded)
              /\ trx'.rollback_operations = <<>>]_vars

\* C37 witness: a transaction with two recorded operations was canceled and
\* the drop of the Canceled value has executed both, changing the disk
C37_Witness ==
    /\ pc = "done"
    /\ trx.state = "Canceled"
    /\ Len(recorded) >= 2
    /\ undone = Reverse(recorded)
    /\ disk # disk0

(***************************************************************************)
(* The stabilized order as a permutation                                   *)
(***************************************************************************)
\* the walk over the stabilized order has begun
Stabilized == pc \in {"walk", "ga_ok", "ga_err_prompt"}

\* the answers of the map a are all in the map b, unchanged
KeptIn(a, b) == \A k \in DOMAIN a : k \in DOMAIN b /\ b[k] = a[k]

\* C38: for an acyclic question file whose dependencies name questions of the
\* file, the stabilized order holds every question identifier exactly once
\* and nothing else, every question is prompted at most once, and the answer
\* map only grows during the walk: an answer stored at one iteration is there,
\* unchanged, at every later one and at the end.
C38_StabilizedOrderIsPermutation ==
    (Stabilized /\ ~HasUnknownReference(file)) =>
        /\ Len(stablized_order) = Len(file)
        /\ \A i \in 1..Len(file) : Occurrences(stablized_order, file[i].key) = 1
        /\ \A q \in Range(prompted) : Occurrences(prompted, q) = 1
        /\ \A i \in 1..Len(turns) : \A j \in i..Len(turns) :
              KeptIn(turns[i].answers, turns[j].answers)
        /\ \A i \in 1..Len(turns) : KeptIn(turns[i].answers, answers)

\* C38 witness: get_answers has returned after a walk over three questions
\* whose stabilized order is not the order of the sorter, all three prompted and
\* answered
C38_Witness ==
    /\ pc = "ga_ok"
    /\ Len(file) = 3
    /\ stablized_order # sort_result.value
    /\ Len(prompted) = 3
    /\ Cardinality(DOMAIN answers) = 3

(***************************************************************************)
(* Termination of the sorter                                               *)
(***************************************************************************)
\* sort_graph has returned: its while loop found the queue empty
Returned == pc = "sorted" /\ queue = <<>>

\* C39: on every graph, with a cycle or without, with copies of edges and
\* with edges between names that are no nodes, sort_graph, once called,
\* eventually empties the queue and returns Ok or CycleDetected.
C39_SortGraphTerminates == (pc = "sort_build") ~> Returned

\* C39 witness: sort_graph has returned CycleDetected on a graph with a cycle,
\* an edge listed twice and an edge from a name that is no node, after it
\* sorted a node
C39_Witness ==
    /\ Returned
    /\ ~sort_result.ok
    /\ sorted # <<>>
    /\ HasCopies(graph)
    /\ HasCycle(graph)
    /\ \E i \in 1..Len(graph.edges) : ~Contains(graph.nodes, graph.edges[i][1])

(***************************************************************************)
(* Dependency strings without ':'                                          *)
(***************************************************************************)
\* the dependency strings of the file that have a ':'
WithColon(f) ==
    {<<i, j>> \in (1..Len(f)) \X (1..2) :
        j <= Len(f[i].dep.list) /\ Contains(f[i].dep.list[j], Colon)}

\* the question has a Condition or an all list with a string without ':'
BlockedByColonless(question) ==
    /\ question.dep.tag \in {"Condition", "And"}
    /\ \E j \in 1..Len(question.dep.list) : ~Contains(question.dep.list[j], Colon)

\* C40: a dependency string without ':' contributes no edge to the graph (the
\* graph has one edge per string with a ':'), it evaluates to false under
\* every answer map the walk goes through, and a question whose Condition or
\* all list holds such a string is never prompted: every iteration of the
\* walk that comes to it decides not to prompt.
C40_ColonlessStringBlocks ==
    /\ pc # "get_answers" => Len(graph.edges) = Cardinality(WithColon(file))
    /\ \A i \in 1..Len(file) : \A j \in 1..Len(file[i].dep.list) :
          ~Contains(file[i].dep.list[j], Colon) =>
              /\ ~check_dependency(file[i].dep.list[j], answers)
              /\ \A k \in 1..Len(turns) : ~check_dependency(file[i].dep.list[j], turns[k].answers)
    /\ \A i \in 1..Len(file) :
          BlockedByColonless(file[i]) =>
              /\ ~Contains(prompted, file[i].key)
              /\ \A k \in 1..Len(turns) :
                    turns[k].question = file[i].key => ~turns[k].should_prompt

\* C40 witness: get_answers has returned Ok; the second question, whose all
\* list holds a string without ':' next to a predicate that the answer to the
\* first question satisfies, was walked and not prompted
C40_Witness ==
    /\ pc = "ga_ok"
    /\ Len(turns) = 2
    /\ \E k \in 1..2 :
          LET question == GetQuestion(file, turns[k].question)
          IN /\ question.dep.tag = "And"
             /\ BlockedByColonless(question)
             /\ \E j \in 1..Len(question.dep.list) :
                   check_dependency(question.dep.list[j], turns[k].answers)
             /\ ~turns[k].should_prompt
    /\ Len(prompted) = 1

====
